---------------------------- MODULE Spec2Model ----------------------------
(***************************************************************************)
(* sokoban-fuzz: a Sokoban solver built on a fuzzing loop.                 *)
(*                                                                         *)
(* The module models                                                       *)
(*   - the rules engine the code imports (sokoban::State, Direction),      *)
(*   - the pathfinding utilities of util.rs (go_to, can_go_to, push_to),   *)
(*   - the mutators of mutators.rs, the scheduler of scheduler.rs, the     *)
(*     executor, observer and feedbacks, and                               *)
(*   - the driver loop of main.rs (fuzz) with the stages it installs.      *)
(* Positions are <<row, col>>, 0-indexed, as in the code.                  *)
(***************************************************************************)
EXTENDS Integers, Sequences, FiniteSets, TLC

\* The most iterations a mutational stage performs on one testcase.
MaxIter == 2
\* max_size is drawn from 1..MaxSize.
MaxSize == 3
\* The grids the utilities are applied to hold 1..MaxCrates crates
MaxCrates == 2
\* and at most MaxWalls walls inside their border.
MaxWalls == 1

(***************************************************************************)
(* Option values.  A position that Direction::go could not produce is      *)
(* NoPos; an Option<Direction> of None is NoDir; an absent state is        *)
(* NoState; an absent corpus id is NoId.                                   *)
(***************************************************************************)
NoPos == <<>>
NoDir == "NoDir"
NoState == [absent |-> TRUE]
NoId == -1

Wall == "Wall"
Floor == "Floor"
Crate == "Crate"

Up == "Up"
Down == "Down"
Left == "Left"
Right == "Right"

\* util.rs: pub static POSSIBLE_MOVES
POSSIBLE_MOVES == <<Up, Down, Left, Right>>

\* util.rs: opposite
opposite(dir) ==
  CASE dir = Up -> Down
    [] dir = Down -> Up
    [] dir = Left -> Right
    [] dir = Right -> Left

(***************************************************************************)
(* The rules engine (crate sokoban).  A state is                           *)
(*   [container, player, targets, rows, cols]                              *)
(* with container the row-major sequence of tiles.                         *)
(***************************************************************************)
\* sokoban::State::new(container, player, targets, dim_r, dim_c)
NewState(container, player, targets, dim_r, dim_c) ==
  [container |-> container, player |-> player, targets |-> targets,
   rows |-> dim_r, cols |-> dim_c]

\* sokoban::Direction::go: checked arithmetic on usize, no knowledge of the grid
go(dir, pos) ==
  CASE dir = Up -> IF pos[1] = 0 THEN NoPos ELSE <<pos[1] - 1, pos[2]>>
    [] dir = Down -> <<pos[1] + 1, pos[2]>>
    [] dir = Left -> IF pos[2] = 0 THEN NoPos ELSE <<pos[1], pos[2] - 1>>
    [] dir = Right -> <<pos[1], pos[2] + 1>>

InBounds(pos, puzzle) ==
  pos # NoPos /\ pos[1] < puzzle.rows /\ pos[2] < puzzle.cols

\* Index<(usize, usize)> for sokoban::State
Tile(puzzle, pos) == puzzle.container[pos[1] * puzzle.cols + pos[2] + 1]

\* IndexMut<(usize, usize)> for sokoban::State
SetTile(puzzle, pos, tile) ==
  [puzzle EXCEPT !.container[pos[1] * puzzle.cols + pos[2] + 1] = tile]

\* sokoban::State::move_player: Ok(new state) or Err carrying the unchanged state
move_player(puzzle, dir) ==
  LET next == go(dir, puzzle.player)
      err == [tag |-> "Err", st |-> puzzle]
  IN IF ~InBounds(next, puzzle) THEN err
     ELSE IF Tile(puzzle, next) = Wall THEN err
     ELSE IF Tile(puzzle, next) = Floor
       THEN [tag |-> "Ok", st |-> [puzzle EXCEPT !.player = next]]
     ELSE LET across == go(dir, next)
          IN IF InBounds(across, puzzle) /\ Tile(puzzle, across) = Floor
             THEN [tag |-> "Ok",
                   st |-> [SetTile(SetTile(puzzle, next, Floor), across, Crate)
                             EXCEPT !.player = next]]
             ELSE err

\* sokoban::State::in_solution_state: every target holds a crate
in_solution_state(puzzle) ==
  \A i \in 1..Len(puzzle.targets) : Tile(puzzle, puzzle.targets[i]) = Crate

\* moves.iter().try_fold(puzzle, |p, d| p.move_player(d)): stops at the first error
RECURSIVE try_fold(_, _)
try_fold(puzzle, moves) ==
  IF moves = <<>> THEN [tag |-> "Ok", st |-> puzzle]
  ELSE LET r == move_player(puzzle, Head(moves))
       IN IF r.tag = "Err" THEN r ELSE try_fold(r.st, Tail(moves))

\* Option<sequence of directions>
NoneMoves == [tag |-> "None", moves |-> <<>>]
SomeMoves(moves) == [tag |-> "Some", moves |-> moves]
PanicMoves == [tag |-> "Panic", moves |-> <<>>]

(***************************************************************************)
(* util.rs: pathfinding                                                    *)
(***************************************************************************)
\* util.rs: find_crates, row-major scan of the grid
RECURSIVE find_crates_from(_, _)
find_crates_from(k, puzzle) ==
  IF k >= puzzle.rows * puzzle.cols THEN <<>>
  ELSE LET pos == <<k \div puzzle.cols, k % puzzle.cols>>
       IN IF Tile(puzzle, pos) = Crate
          THEN <<pos>> \o find_crates_from(k + 1, puzzle)
          ELSE find_crates_from(k + 1, puzzle)

find_crates(puzzle) == find_crates_from(0, puzzle)

\* util.rs: explore_local, the directions from index i on
RECURSIVE explore_local_from(_, _, _, _, _, _)
explore_local_from(i, start, destination, puzzle, prev_moves, new_moves) ==
  IF i > Len(POSSIBLE_MOVES)
  THEN [found |-> FALSE, prev_moves |-> prev_moves, new_moves |-> new_moves]
  ELSE LET direction == POSSIBLE_MOVES[i]
           next == go(direction, start)
       IN IF next # NoPos /\ next[1] < puzzle.rows /\ next[2] < puzzle.cols
             /\ Tile(puzzle, next) = Floor
          THEN IF next \in DOMAIN prev_moves
               THEN explore_local_from(i + 1, start, destination, puzzle, prev_moves, new_moves)
               ELSE LET inserted == (next :> direction) @@ prev_moves
                    IN IF next = destination
                       THEN [found |-> TRUE, prev_moves |-> inserted, new_moves |-> new_moves]
                       ELSE explore_local_from(i + 1, start, destination, puzzle,
                                               inserted, Append(new_moves, next))
          ELSE explore_local_from(i + 1, start, destination, puzzle, prev_moves, new_moves)

explore_local(start, destination, puzzle, prev_moves, new_moves) ==
  explore_local_from(1, start, destination, puzzle, prev_moves, new_moves)

\* walk_back pushing each direction to the back of moves
RECURSIVE walk_back_appending(_, _, _)
walk_back_appending(prev_moves, next, moves) ==
  IF next \in DOMAIN prev_moves /\ prev_moves[next] # NoDir
  THEN walk_back_appending(prev_moves, go(opposite(prev_moves[next]), next),
                           moves \o <<prev_moves[next]>>)
  ELSE moves

\* util.rs: "walk backwards through the flood-fill" (go_to 80-85, push_to 215-220)
RECURSIVE walk_back(_, _, _)
walk_back(prev_moves, next, moves) ==
  IF next \in DOMAIN prev_moves /\ prev_moves[next] # NoDir
  THEN walk_back(prev_moves, go(opposite(prev_moves[next]), next),
                 <<prev_moves[next]>> \o moves)
  ELSE moves

\* util.rs: go_to, the while loop (74-89): one pass per flood-fill level
RECURSIVE go_to_level(_, _, _, _, _, _)
\* go_to_explored going on from the squares just found before the rest of the level
go_to_explored_depth_first(i, last_moves, r, destination, puzzle) ==
  IF r.found
  THEN SomeMoves(walk_back(r.prev_moves, destination, <<>>))
  ELSE go_to_level(1, r.new_moves \o SubSeq(last_moves, i + 1, Len(last_moves)), <<>>,
                   r.prev_moves, destination, puzzle)

\* go_to 78-87: what follows the call of explore_local, whose result is r
go_to_explored(i, last_moves, r, destination, puzzle) ==
  IF r.found
  THEN SomeMoves(walk_back(r.prev_moves, destination, <<>>))
  ELSE go_to_level(i + 1, last_moves, r.new_moves, r.prev_moves, destination, puzzle)

go_to_level(i, last_moves, new_moves, prev_moves, destination, puzzle) ==
  IF i > Len(last_moves)
  THEN IF new_moves = <<>> THEN NoneMoves
       ELSE go_to_level(1, new_moves, <<>>, prev_moves, destination, puzzle)
  ELSE go_to_explored(i, last_moves,
         explore_local(last_moves[i], destination, puzzle, prev_moves, new_moves),
         destination, puzzle)

\* go_to without the test of start == destination
go_to_no_shortcut(start, destination, puzzle) ==
  IF start # NoPos /\ destination # NoPos
     /\ start[1] < puzzle.rows /\ start[2] < puzzle.cols
     /\ Tile(puzzle, start) = Floor
     /\ destination[1] < puzzle.rows /\ destination[2] < puzzle.cols
     /\ Tile(puzzle, destination) = Floor
  THEN go_to_level(1, <<start>>, <<>>, (start :> NoDir), destination, puzzle)
  ELSE NoneMoves

\* util.rs: go_to
go_to(start, destination, puzzle) ==
  IF start # NoPos /\ destination # NoPos
     /\ start[1] < puzzle.rows /\ start[2] < puzzle.cols
     /\ Tile(puzzle, start) = Floor
     /\ destination[1] < puzzle.rows /\ destination[2] < puzzle.cols
     /\ Tile(puzzle, destination) = Floor
  THEN IF start = destination THEN SomeMoves(<<>>)
       ELSE go_to_level(1, <<start>>, <<>>, (start :> NoDir), destination, puzzle)
  ELSE NoneMoves

\* util.rs: can_go_to, the while loop (115-123)
RECURSIVE can_go_to_level(_, _, _, _, _, _)
\* can_go_to 119-121: what follows the call of explore_local, whose result is r
can_go_to_explored(i, last_moves, r, destination, puzzle) ==
  IF r.found THEN TRUE
  ELSE can_go_to_level(i + 1, last_moves, r.new_moves, r.prev_moves, destination, puzzle)

can_go_to_level(i, last_moves, new_moves, prev_moves, destination, puzzle) ==
  IF i > Len(last_moves)
  THEN IF new_moves = <<>> THEN FALSE
       ELSE can_go_to_level(1, new_moves, <<>>, prev_moves, destination, puzzle)
  ELSE can_go_to_explored(i, last_moves,
         explore_local(last_moves[i], destination, puzzle, prev_moves, new_moves),
         destination, puzzle)

\* can_go_to without the test of start == destination
can_go_to_no_shortcut(start, destination, puzzle) ==
  IF start # NoPos /\ destination # NoPos
     /\ start[1] < puzzle.rows /\ start[2] < puzzle.cols
     /\ Tile(puzzle, start) = Floor
     /\ destination[1] < puzzle.rows /\ destination[2] < puzzle.cols
     /\ Tile(puzzle, destination) = Floor
  THEN can_go_to_level(1, <<start>>, <<>>, (start :> NoDir), destination, puzzle)
  ELSE FALSE

\* util.rs: can_go_to
can_go_to(start, destination, puzzle) ==
  IF start # NoPos /\ destination # NoPos
     /\ start[1] < puzzle.rows /\ start[2] < puzzle.cols
     /\ Tile(puzzle, start) = Floor
     /\ destination[1] < puzzle.rows /\ destination[2] < puzzle.cols
     /\ Tile(puzzle, destination) = Floor
  THEN IF start = destination THEN TRUE
       ELSE can_go_to_level(1, <<start>>, <<>>, (start :> NoDir), destination, puzzle)
  ELSE FALSE


\* util.rs: push_local, the directions from index i on.  hallucinated holds Floor
\* on the square of the crate being moved; it is set to Crate at start only for
\* the reachability check (151, 157, 162).
RECURSIVE push_local_from(_, _, _, _, _, _, _)
push_local_from(i, player, start, destination, hallucinated, prev_moves, new_moves) ==
  IF i > Len(POSSIBLE_MOVES)
  THEN [found |-> FALSE, prev_moves |-> prev_moves, new_moves |-> new_moves]
  ELSE LET direction == POSSIBLE_MOVES[i]
           next == go(direction, start)
           push_point == go(opposite(direction), start)
       IN IF next # NoPos /\ push_point # NoPos
             /\ next[1] < hallucinated.rows /\ next[2] < hallucinated.cols
             /\ Tile(hallucinated, next) = Floor
             /\ push_point[1] < hallucinated.rows /\ push_point[2] < hallucinated.cols
             /\ Tile(hallucinated, push_point) = Floor
          THEN IF next \in DOMAIN prev_moves
               THEN push_local_from(i + 1, player, start, destination, hallucinated,
                                    prev_moves, new_moves)
               ELSE IF can_go_to(player, push_point, SetTile(hallucinated, start, Crate))
               THEN LET inserted == (next :> direction) @@ prev_moves
                    IN IF next = destination
                       THEN [found |-> TRUE, prev_moves |-> inserted, new_moves |-> new_moves]
                       ELSE push_local_from(i + 1, player, start, destination, hallucinated,
                                            inserted, Append(new_moves, next))
               ELSE push_local_from(i + 1, player, start, destination, hallucinated,
                                    prev_moves, new_moves)
          ELSE push_local_from(i + 1, player, start, destination, hallucinated,
                               prev_moves, new_moves)

push_local(player, start, destination, hallucinated, prev_moves, new_moves) ==
  push_local_from(1, player, start, destination, hallucinated, prev_moves, new_moves)

\* util.rs: push_to 224-253, reassembling the player's moves from the crate's moves.
\* hallucinated is the state the moves assembled[1..last_executed] lead to.
RECURSIVE assemble(_, _, _, _, _, _)
\* assemble_queued with the walk to the push point left out
assemble_queued_no_walk(i, crate_moves, hallucinated, assembled, last_position, path) ==
  IF path.tag = "None" THEN PanicMoves
  ELSE assemble(i + 1, crate_moves, hallucinated, Append(assembled, crate_moves[i]),
                Len(assembled), go(crate_moves[i], last_position))

\* push_to 238-250: the walk to the push point (path) and the push are queued
assemble_queued(i, crate_moves, hallucinated, assembled, last_position, path) ==
  IF path.tag = "None" THEN PanicMoves
  ELSE assemble(i + 1, crate_moves, hallucinated,
                (assembled \o path.moves) \o <<crate_moves[i]>>,
                Len(assembled), go(crate_moves[i], last_position))

\* push_to 229-242: executed is the state after the moves not yet executed
assemble_executed(i, crate_moves, executed, assembled, last_position) ==
  IF executed.tag = "Err" THEN PanicMoves
  ELSE assemble_queued(i, crate_moves, executed.st, assembled, last_position,
         go_to(executed.st.player, go(opposite(crate_moves[i]), last_position), executed.st))

assemble(i, crate_moves, hallucinated, assembled, last_executed, last_position) ==
  IF i > Len(crate_moves) THEN SomeMoves(assembled)
  ELSE assemble_executed(i, crate_moves,
         try_fold(hallucinated, SubSeq(assembled, last_executed + 1, Len(assembled))),
         assembled, last_position)

\* util.rs: push_to, the while loop (197-256)
RECURSIVE push_to_level(_, _, _, _, _, _, _, _)
\* push_to 206-254: what follows the call of push_local, whose result is r
push_to_pushed(i, last_moves, r, start, destination, hallucinated, puzzle) ==
  IF r.found
  THEN assemble(1, walk_back(r.prev_moves, destination, <<>>),
                SetTile(hallucinated, start, Crate), <<>>, 0, start)
  ELSE push_to_level(i + 1, last_moves, r.new_moves, r.prev_moves, start,
                     destination, hallucinated, puzzle)

\* player_at taking the player to stand where the puzzle has them, wherever the
\* crate is
player_at_first(prev, prev_moves, puzzle) == puzzle.player

\* push_to 201-205: where the player stands when the crate is at prev
player_at(prev, prev_moves, puzzle) ==
  IF prev_moves[prev] = NoDir THEN puzzle.player
  ELSE go(opposite(prev_moves[prev]), prev)

push_to_level(i, last_moves, new_moves, prev_moves, start, destination, hallucinated, puzzle) ==
  IF i > Len(last_moves)
  THEN IF new_moves = <<>> THEN NoneMoves
       ELSE push_to_level(1, new_moves, <<>>, prev_moves, start, destination,
                          hallucinated, puzzle)
  ELSE push_to_pushed(i, last_moves,
         push_local(player_at(last_moves[i], prev_moves, puzzle), last_moves[i],
                    destination, hallucinated, prev_moves, new_moves),
         start, destination, hallucinated, puzzle)

\* util.rs: push_to
push_to(start, destination, puzzle) ==
  IF start # NoPos /\ destination # NoPos
     /\ start[1] < puzzle.rows /\ start[2] < puzzle.cols
     /\ Tile(puzzle, start) = Crate
     /\ destination[1] < puzzle.rows /\ destination[2] < puzzle.cols
     /\ Tile(puzzle, destination) = Floor
  THEN IF start = destination THEN SomeMoves(<<>>)
       ELSE push_to_level(1, <<start>>, <<>>, (start :> NoDir), start, destination,
                          SetTile(puzzle, start, Floor), puzzle)
  ELSE NoneMoves


(***************************************************************************)
(* mutators.rs                                                             *)
(***************************************************************************)
\* SokobanRemainingMutationsMetadata::new, the inner loops for one crate
RECURSIVE crate_moves_from(_, _)
crate_moves_from(i, moved) ==
  IF i > Len(POSSIBLE_MOVES) THEN <<>>
  ELSE <<<<moved, POSSIBLE_MOVES[i]>>>> \o crate_moves_from(i + 1, moved)

RECURSIVE crate_targets_from(_, _, _)
crate_targets_from(i, moved, targets) ==
  IF i > Len(targets) THEN <<>>
  ELSE <<<<moved, targets[i]>>>> \o crate_targets_from(i + 1, moved, targets)

RECURSIVE remaining_from(_, _, _)
remaining_from(i, crates, targets) ==
  IF i > Len(crates)
  THEN [moves_remaining |-> <<>>, move_to_targets_remaining |-> <<>>]
  ELSE LET rest == remaining_from(i + 1, crates, targets)
       IN [moves_remaining |-> crate_moves_from(1, crates[i]) \o rest.moves_remaining,
           move_to_targets_remaining |->
             crate_targets_from(1, crates[i], targets) \o rest.move_to_targets_remaining]

\* SokobanRemainingMutationsMetadata::new pairing each crate with the first target only
SokobanRemainingMutationsMetadata_new_first_target(crates, targets) ==
  remaining_from(1, crates, SubSeq(targets, 1, 1))

\* SokobanRemainingMutationsMetadata::new
SokobanRemainingMutationsMetadata_new(crates, targets) == remaining_from(1, crates, targets)

\* SokobanRemainingMutationsMetadata::remaining
remaining(tc_meta) ==
  Len(tc_meta.moves_remaining) + Len(tc_meta.move_to_targets_remaining)

Front(seq) == SubSeq(seq, 1, Len(seq) - 1)
Last(seq) == seq[Len(seq)]

\* The value a mutate call leaves behind: its result, the input's moves and
\* hallucinated state, and the testcase's two budget vectors.
MutateOutcome(result, moves, hallucinated, moves_remaining, targets_remaining) ==
  [result |-> result, moves |-> moves, hallucinated |-> hallucinated,
   moves_remaining |-> moves_remaining, targets_remaining |-> targets_remaining]

\* and_then_move with the push left out
and_then_move_left_out(walked, direction) == walked

\* Result::and_then(|current| current.move_player(direction))
and_then_move(walked, direction) ==
  IF walked.tag = "Ok" THEN move_player(walked.st, direction) ELSE walked

\* MoveCrateApplied with the push left out of the new move list
MoveCrateApplied_no_push(pushed, input_moves, moves, direction, moves_remaining, targets_remaining) ==
  IF pushed.tag = "Err"
  THEN MutateOutcome("Panic", input_moves, NoState, moves_remaining, targets_remaining)
  ELSE MutateOutcome("Mutated", input_moves \o moves, pushed.st,
                     moves_remaining, targets_remaining)

\* MoveCrateMutator::mutate 95-107: pushed is the folded walk and the push; the
\* unwrap, the new state and the new move list
MoveCrateApplied(pushed, input_moves, moves, direction, moves_remaining, targets_remaining) ==
  IF pushed.tag = "Err"
  THEN MutateOutcome("Panic", input_moves, NoState, moves_remaining, targets_remaining)
  ELSE MutateOutcome("Mutated", (input_moves \o moves) \o <<direction>>, pushed.st,
                     moves_remaining, targets_remaining)

\* MoveCrateMutator::mutate 86-89: the walk to the push point of the popped pair,
\* when the square the crate is pushed to is Floor
MoveCratePath(current, target, direction) ==
  IF go(direction, target) # NoPos /\ Tile(current, go(direction, target)) = Floor
     /\ go(opposite(direction), target) # NoPos
  THEN go_to(current.player, go(opposite(direction), target), current)
  ELSE NoneMoves

RECURSIVE MoveCrateLoop(_, _, _, _, _)
\* MoveCrateMutator::mutate 89-108: path is the walk found for the popped pair
MoveCrateTried(path, current, input_moves, max_size, direction, popped, targets_remaining) ==
  IF path.tag = "Some"
  THEN IF Len(path.moves) + Len(input_moves) > max_size
       THEN MutateOutcome("Skipped", input_moves, current, popped, targets_remaining)
       ELSE MoveCrateApplied(and_then_move(try_fold(current, path.moves), direction),
                             input_moves, path.moves, direction, popped, targets_remaining)
  ELSE MoveCrateLoop(current, input_moves, max_size, popped, targets_remaining)

\* MoveCrateLoop taking the first pair of moves_remaining, not the last
MoveCrateLoop_front(current, input_moves, max_size, moves_remaining, targets_remaining) ==
  IF moves_remaining = <<>>
  THEN MutateOutcome("Skipped", input_moves, current, <<>>, targets_remaining)
  ELSE MoveCrateTried(
         MoveCratePath(current, Head(moves_remaining)[1], Head(moves_remaining)[2]),
         current, input_moves, max_size, Head(moves_remaining)[2],
         Tail(moves_remaining), targets_remaining)

\* MoveCrateMutator::mutate 75-112: the loop over moves_remaining
MoveCrateLoop(current, input_moves, max_size, moves_remaining, targets_remaining) ==
  IF moves_remaining = <<>>
  THEN MutateOutcome("Skipped", input_moves, current, <<>>, targets_remaining)
  ELSE MoveCrateTried(
         MoveCratePath(current, Last(moves_remaining)[1], Last(moves_remaining)[2]),
         current, input_moves, max_size, Last(moves_remaining)[2],
         Front(moves_remaining), targets_remaining)

\* MoveCrateMutator::mutate
MoveCrateMutator_mutate(current, input_moves, max_size, moves_remaining, targets_remaining) ==
  IF max_size <= Len(input_moves)
  THEN MutateOutcome("Skipped", input_moves, current, <<>>, targets_remaining)
  ELSE MoveCrateLoop(current, input_moves, max_size, moves_remaining, targets_remaining)

\* MoveCrateToTargetApplied putting the new moves before the input's
MoveCrateToTargetApplied_prepends(pushed, input_moves, moves, moves_remaining, targets_remaining) ==
  IF pushed.tag = "Err"
  THEN MutateOutcome("Panic", input_moves, NoState, moves_remaining, targets_remaining)
  ELSE MutateOutcome("Mutated", moves \o input_moves, pushed.st,
                     moves_remaining, targets_remaining)

\* MoveCrateToTargetMutator::mutate 163-171: pushed is the folded moves; the unwrap,
\* the new state and the new move list
MoveCrateToTargetApplied(pushed, input_moves, moves, moves_remaining, targets_remaining) ==
  IF pushed.tag = "Err"
  THEN MutateOutcome("Panic", input_moves, NoState, moves_remaining, targets_remaining)
  ELSE MutateOutcome("Mutated", input_moves \o moves, pushed.st,
                     moves_remaining, targets_remaining)

RECURSIVE MoveCrateToTargetLoop(_, _, _, _, _)
\* MoveCrateToTargetTried not putting the state back when the moves are too many
MoveCrateToTargetTried_not_restored(path, current, input_moves, max_size, moves_remaining, popped) ==
  IF path.tag = "Panic"
  THEN MutateOutcome("Panic", input_moves, NoState, moves_remaining, popped)
  ELSE IF path.tag = "Some"
  THEN IF Len(path.moves) + Len(input_moves) > max_size
       THEN MutateOutcome("Skipped", input_moves, NoState, moves_remaining, popped)
       ELSE MoveCrateToTargetApplied(try_fold(current, path.moves), input_moves,
                                     path.moves, moves_remaining, popped)
  ELSE MoveCrateToTargetLoop(current, input_moves, max_size, moves_remaining, popped)

\* MoveCrateToTargetMutator::mutate 157-172: path is what push_to gave for the popped pair
MoveCrateToTargetTried(path, current, input_moves, max_size, moves_remaining, popped) ==
  IF path.tag = "Panic"
  THEN MutateOutcome("Panic", input_moves, NoState, moves_remaining, popped)
  ELSE IF path.tag = "Some"
  THEN IF Len(path.moves) + Len(input_moves) > max_size
       THEN MutateOutcome("Skipped", input_moves, current, moves_remaining, popped)
       ELSE MoveCrateToTargetApplied(try_fold(current, path.moves), input_moves,
                                     path.moves, moves_remaining, popped)
  ELSE MoveCrateToTargetLoop(current, input_moves, max_size, moves_remaining, popped)

\* MoveCrateToTargetMutator::mutate 146-173: the loop over move_to_targets_remaining
MoveCrateToTargetLoop(current, input_moves, max_size, moves_remaining, targets_remaining) ==
  IF targets_remaining = <<>>
  THEN MutateOutcome("Skipped", input_moves, current, moves_remaining, <<>>)
  ELSE MoveCrateToTargetTried(
         push_to(Last(targets_remaining)[1], Last(targets_remaining)[2], current),
         current, input_moves, max_size, moves_remaining, Front(targets_remaining))

\* MoveCrateToTargetMutator::mutate
MoveCrateToTargetMutator_mutate(current, input_moves, max_size, moves_remaining, targets_remaining) ==
  IF max_size <= Len(input_moves)
  THEN MutateOutcome("Skipped", input_moves, current, moves_remaining, <<>>)
  ELSE MoveCrateToTargetLoop(current, input_moves, max_size, moves_remaining, targets_remaining)

\* What OneShotMutator::mutate leaves on the input
OneShotOutcome(result, moves, hallucinated) ==
  [result |-> result, moves |-> moves, hallucinated |-> hallucinated]

RECURSIVE OneShotLoop(_, _, _, _, _, _, _)
\* OneShotMutator::mutate 220-233: pushed is the folded moves of the pair
OneShotApplied(pushed, i, targets, crates, input_moves, moves, max_size) ==
  IF pushed.tag = "Err" THEN OneShotOutcome("Panic", input_moves, NoState)
  ELSE IF in_solution_state(pushed.st)
  THEN OneShotOutcome("Mutated", input_moves \o moves, pushed.st)
  ELSE OneShotLoop(i + 1, targets, crates, pushed.st, input_moves \o moves,
                   max_size, "Mutated")

\* OneShotTried going on to the next pair after a pair that cannot be pushed
OneShotTried_goes_on(path, i, targets, crates, current, input_moves, max_size, mutated) ==
  IF path.tag = "Panic" THEN OneShotOutcome("Panic", input_moves, NoState)
  ELSE IF path.tag = "None"
  THEN OneShotLoop(i + 1, targets, crates, current, input_moves, max_size, mutated)
  ELSE IF Len(path.moves) + Len(input_moves) > max_size
  THEN OneShotOutcome(mutated, input_moves, current)
  ELSE OneShotApplied(try_fold(current, path.moves), i, targets, crates,
                      input_moves, path.moves, max_size)

\* OneShotMutator::mutate 215-229: path is what push_to gave for the pair
OneShotTried(path, i, targets, crates, current, input_moves, max_size, mutated) ==
  IF path.tag = "Panic" THEN OneShotOutcome("Panic", input_moves, NoState)
  ELSE IF path.tag = "None" THEN OneShotOutcome(mutated, input_moves, current)
  ELSE IF Len(path.moves) + Len(input_moves) > max_size
  THEN OneShotOutcome(mutated, input_moves, current)
  ELSE OneShotApplied(try_fold(current, path.moves), i, targets, crates,
                      input_moves, path.moves, max_size)

\* OneShotMutator::mutate 214-234: the loop over targets.zip(crates) from pair i on
OneShotLoop(i, targets, crates, current, input_moves, max_size, mutated) ==
  IF i > Len(targets) \/ i > Len(crates)
  THEN OneShotOutcome(mutated, input_moves, current)
  ELSE OneShotTried(push_to(crates[i], targets[i], current), i, targets, crates,
                    current, input_moves, max_size, mutated)

\* OneShotMutator::mutate 196-238; targets and crates are the vectors after their shuffle
OneShotShuffled(current, input_moves, max_size, targets, crates) ==
  IF max_size <= Len(input_moves) \/ in_solution_state(current)
  THEN OneShotOutcome("Skipped", input_moves, current)
  ELSE OneShotLoop(1, targets, crates, current, input_moves, max_size, "Skipped")

\* WithBudget with the single-push budget cleared
WithBudget_cleared(r, moves_remaining, targets_remaining) ==
  MutateOutcome(r.result, r.moves, r.hallucinated, <<>>, targets_remaining)

\* The outcome of OneShot with the testcase's budget, which it does not touch
WithBudget(r, moves_remaining, targets_remaining) ==
  MutateOutcome(r.result, r.moves, r.hallucinated, moves_remaining, targets_remaining)

\* OneShotMutator::mutate
OneShotMutator_mutate(current, input_moves, max_size, targets, crates, moves_remaining, targets_remaining) ==
  WithBudget(OneShotShuffled(current, input_moves, max_size, targets, crates),
             moves_remaining, targets_remaining)

(***************************************************************************)
(* The program state                                                       *)
(***************************************************************************)
VARIABLES
  initial,          \* InitialPuzzleMetadata / SokobanExecutor.initial
  max_size,         \* state.max_size()
  corpus,           \* state.corpus(): id -> testcase [input, remaining_mutations]
  progressive_idx,  \* the id the corpus gives to the next testcase added
  current,          \* state.corpus().current()
  solutions,        \* state.solutions(): the inputs added, in order
  metadata,         \* SokobanWeightSchedulerMetadata
  hash_set,         \* the hashes the novelty feedback has seen
  last_state,       \* SokobanStateObserver.last_state
  hallucination,    \* LastHallucinationMetadata.hallucination
  most_set,         \* SokobanStatisticsFeedback.most_set
  most_moves,       \* SokobanStatisticsFeedback.most_moves
  pc,               \* where the driver is: seed, next, a stage, done, error, or the panic it stopped at
  iter,             \* iterations the running stage has performed
  last_call,        \* the last mutate call: what it was given and what it left
  applied           \* the last call of a utility on its own: arguments and result

vars == <<initial, max_size, corpus, progressive_idx, current, solutions, metadata,
          hash_set, last_state, hallucination, most_set, most_moves, pc, iter, last_call, applied>>

NoMeta == [absent |-> TRUE]

\* Testcase::with_executions(input, ..): a testcase with no metadata attached yet
Testcase(input) == [input |-> input, remaining_mutations |-> NoMeta]

\* corpus.remove / weight.remove: the map without key
Without(map, key) == [k \in (DOMAIN map) \ {key} |-> map[k]]

RECURSIVE SumWeights(_)
SumWeights(weight) ==
  IF DOMAIN weight = {} THEN 0
  ELSE LET k == CHOOSE k \in DOMAIN weight : TRUE
       IN weight[k] + SumWeights(Without(weight, k))

(***************************************************************************)
(* scheduler.rs                                                            *)
(***************************************************************************)
\* SokobanWeightSchedulerMetadata::default
SokobanWeightSchedulerMetadata_default ==
  [weight |-> <<>>, max_weight |-> 0, total_weight |-> 0, pruneable |-> <<>>]

\* on_add_weighted leaving the weight map as it was
on_add_weighted_no_weight(md, corp, idx, tc_meta, amount) ==
  [tag |-> "Ok",
   corpus |-> [corp EXCEPT ![idx].remaining_mutations = tc_meta],
   metadata |-> [md EXCEPT
      !.total_weight = md.total_weight + amount,
      !.max_weight = IF md.max_weight = 0 THEN amount ELSE md.max_weight]]

\* on_add_weighted setting total_weight to the new weight
on_add_weighted_total_reset(md, corp, idx, tc_meta, amount) ==
  [tag |-> "Ok",
   corpus |-> [corp EXCEPT ![idx].remaining_mutations = tc_meta],
   metadata |-> [md EXCEPT
      !.weight = (idx :> amount) @@ md.weight,
      !.total_weight = amount,
      !.max_weight = IF md.max_weight = 0 THEN amount ELSE md.max_weight]]

\* SokobanWeightScheduler::on_add 71-86: tc_meta is attached to the testcase, its
\* size amount becomes the weight
on_add_weighted(md, corp, idx, tc_meta, amount) ==
  [tag |-> "Ok",
   corpus |-> [corp EXCEPT ![idx].remaining_mutations = tc_meta],
   metadata |-> [md EXCEPT
      !.weight = (idx :> amount) @@ md.weight,
      !.total_weight = md.total_weight + amount,
      !.max_weight = IF md.max_weight = 0 THEN amount ELSE md.max_weight]]

\* SokobanWeightScheduler::on_add 69-74
on_add_budget(md, corp, idx, tc_meta) ==
  on_add_weighted(md, corp, idx, tc_meta, remaining(tc_meta))

\* SokobanWeightScheduler::on_add 57-73: hallucinated is the replay of the input
on_add_replayed(md, corp, idx, hallucinated) ==
  IF hallucinated.tag = "Err"
  THEN [tag |-> "panic_on_add", metadata |-> md, corpus |-> corp]
  ELSE on_add_budget(md, corp, idx,
         SokobanRemainingMutationsMetadata_new(find_crates(hallucinated.st),
                                               hallucinated.st.targets))

\* SokobanWeightScheduler::on_add: the testcase idx of corp gets its budget, the
\* scheduler its weight
on_add(md, corp, idx) ==
  on_add_replayed(md, corp, idx, try_fold(initial, corp[idx].input))

\* on_evaluation_remaining with the old weight left in total_weight
on_evaluation_remaining_keeps_old(md, cur, amount) ==
  IF cur \notin DOMAIN md.weight
  THEN [tag |-> "panic_on_evaluation", metadata |-> md]
  ELSE IF amount = 0
  THEN [tag |-> "Ok",
        metadata |-> [md EXCEPT
           !.weight = Without(md.weight, cur),
           !.pruneable = Append(md.pruneable, cur)]]
  ELSE IF 1 + md.max_weight < amount
  THEN [tag |-> "panic_on_evaluation", metadata |-> md]
  ELSE [tag |-> "Ok",
        metadata |-> [md EXCEPT
           !.weight = (cur :> ((1 + md.max_weight) - amount)) @@ md.weight,
           !.total_weight = md.total_weight + ((1 + md.max_weight) - amount)]]

\* on_evaluation_remaining computing max_weight - remaining
on_evaluation_remaining_without_one(md, cur, amount) ==
  IF cur \notin DOMAIN md.weight
  THEN [tag |-> "panic_on_evaluation", metadata |-> md]
  ELSE IF amount = 0
  THEN [tag |-> "Ok",
        metadata |-> [md EXCEPT
           !.weight = Without(md.weight, cur),
           !.pruneable = Append(md.pruneable, cur),
           !.total_weight = (md.total_weight + 0) - md.weight[cur]]]
  ELSE IF md.max_weight < amount
  THEN [tag |-> "panic_on_evaluation", metadata |-> md]
  ELSE [tag |-> "Ok",
        metadata |-> [md EXCEPT
           !.weight = (cur :> (md.max_weight - amount)) @@ md.weight,
           !.total_weight = (md.total_weight + (md.max_weight - amount))
                            - md.weight[cur]]]

\* SokobanWeightScheduler::on_evaluation 110-122: amount is the budget the current
\* testcase has left
on_evaluation_remaining(md, cur, amount) ==
  IF cur \notin DOMAIN md.weight
  THEN [tag |-> "panic_on_evaluation", metadata |-> md]
  ELSE IF amount = 0
  THEN [tag |-> "Ok",
        metadata |-> [md EXCEPT
           !.weight = Without(md.weight, cur),
           !.pruneable = Append(md.pruneable, cur),
           !.total_weight = (md.total_weight + 0) - md.weight[cur]]]
  ELSE IF 1 + md.max_weight < amount
  THEN [tag |-> "panic_on_evaluation", metadata |-> md]
  ELSE [tag |-> "Ok",
        metadata |-> [md EXCEPT
           !.weight = (cur :> ((1 + md.max_weight) - amount)) @@ md.weight,
           !.total_weight = (md.total_weight + ((1 + md.max_weight) - amount))
                            - md.weight[cur]]]

\* SokobanWeightScheduler::on_evaluation
on_evaluation(md, corp, cur) ==
  IF cur = NoId THEN [tag |-> "Ok", metadata |-> md]
  ELSE IF cur \notin DOMAIN corp \/ corp[cur].remaining_mutations = NoMeta
  THEN [tag |-> "error", metadata |-> md]
  ELSE on_evaluation_remaining(md, cur, remaining(corp[cur].remaining_mutations))

RECURSIVE scan_weights_inclusive(_, _, _, _)
\* scan_weights going past an entry whose weight equals the rest of the draw only
\* when the draw is larger
scan_weights_inclusive(i, order, weight, selected) ==
  IF i > Len(order) THEN NoId
  ELSE IF selected > weight[order[i]]
       THEN scan_weights_inclusive(i + 1, order, weight, selected - weight[order[i]])
       ELSE order[i]

\* SokobanWeightScheduler::next 139-149: the scan of the weight map in the order
\* the map iterates; NoId when the scan runs off the end
RECURSIVE scan_weights(_, _, _, _)
scan_weights(i, order, weight, selected) ==
  IF i > Len(order) THEN NoId
  ELSE IF selected >= weight[order[i]]
       THEN scan_weights(i + 1, order, weight, selected - weight[order[i]])
       ELSE order[i]

\* rand.below(upper_bound_excl): the values a draw may give
Below(upper_bound_excl) ==
  IF upper_bound_excl <= 1 THEN {0} ELSE 0..(upper_bound_excl - 1)

RECURSIVE SeqPerms(_)
SeqPerms(S) ==
  IF S = {} THEN {<<>>}
  ELSE UNION {{<<x>> \o p : p \in SeqPerms(S \ {x})} : x \in S}

\* slice.shuffle(rng): the orders a shuffle may give
Shuffles(seq) == {[i \in 1..Len(seq) |-> seq[p[i]]] : p \in SeqPerms(1..Len(seq))}

RECURSIVE remove_all(_, _, _)
remove_all(i, pruneable, corp) ==
  IF i > Len(pruneable) THEN [tag |-> "Ok", corpus |-> corp]
  ELSE IF pruneable[i] \notin DOMAIN corp THEN [tag |-> "error", corpus |-> corp]
  ELSE remove_all(i + 1, pruneable, Without(corp, pruneable[i]))

(***************************************************************************)
(* executor.rs, observer.rs, feedback.rs                                   *)
(***************************************************************************)
\* run_target_replayed handing the observer the state the replay stopped at
run_target_replayed_stopped_at(replayed, slot) ==
  IF slot # NoState THEN [exit_kind |-> "Ok", last_state |-> slot]
  ELSE [exit_kind |-> "Ok", last_state |-> replayed.st]

\* SokobanExecutor::run_target, after SokobanStateObserver::pre_exec cleared
\* last_state: the exit kind and the observer's last_state
run_target_replayed(replayed, slot) ==
  IF slot # NoState THEN [exit_kind |-> "Ok", last_state |-> slot]
  ELSE IF replayed.tag = "Ok" THEN [exit_kind |-> "Ok", last_state |-> replayed.st]
  ELSE [exit_kind |-> "Crash", last_state |-> NoState]

\* run_target handing the observer the state of the puzzle before any move
run_target_initial(input, slot) == run_target_replayed(try_fold(initial, <<>>), slot)

run_target(input, slot) == run_target_replayed(try_fold(initial, input), slot)

\* SokobanStateObserver::hash: what is fed to the hasher, the crate positions in
\* grid order and then the player's
hash(state) == <<find_crates(state), state.player>>

\* NewHashFeedback::is_interesting
NewHashFeedback_is_interesting(state, seen) ==
  state # NoState /\ hash(state) \notin seen

\* SokobanSolvedFeedback::is_interesting satisfied by one covered target
SokobanSolvedFeedback_any_target(state) ==
  IF state # NoState
  THEN \E i \in 1..Len(state.targets) : Tile(state, state.targets[i]) = Crate
  ELSE FALSE

\* SokobanSolvedFeedback::is_interesting
SokobanSolvedFeedback_is_interesting(state) ==
  IF state # NoState THEN in_solution_state(state) ELSE FALSE

IsTarget(state, pos) == \E i \in 1..Len(state.targets) : state.targets[i] = pos

WallAt(state, dir, pos) == go(dir, pos) # NoPos /\ Tile(state, go(dir, pos)) = Wall

\* Cornered without the test of the square below
Cornered_above_only(state, maybe_cornered) ==
  /\ ~IsTarget(state, maybe_cornered)
  /\ WallAt(state, Up, maybe_cornered)
  /\ (WallAt(state, Left, maybe_cornered) \/ WallAt(state, Right, maybe_cornered))

\* SokobanSolvableFeedback::is_interesting
Cornered(state, maybe_cornered) ==
  /\ ~IsTarget(state, maybe_cornered)
  /\ \/ WallAt(state, Up, maybe_cornered)
        /\ (WallAt(state, Left, maybe_cornered) \/ WallAt(state, Right, maybe_cornered))
     \/ WallAt(state, Down, maybe_cornered)
        /\ (WallAt(state, Left, maybe_cornered) \/ WallAt(state, Right, maybe_cornered))

AnyCornered(state, crates) == \E i \in 1..Len(crates) : Cornered(state, crates[i])

SokobanSolvableFeedback_is_interesting(state) ==
  IF state # NoState THEN ~AnyCornered(state, find_crates(state)) ELSE FALSE

\* SokobanStatisticsFeedback::is_interesting 194-198: the targets holding a crate
CountSet(state) == Cardinality({i \in 1..Len(state.targets) : Tile(state, state.targets[i]) = Crate})

Max(a, b) == IF a > b THEN a ELSE b


(***************************************************************************)
(* main.rs: fuzz.  The fuzzer it builds evaluates an input in this order:  *)
(* observer pre_exec, executor, scheduler on_evaluation, then the          *)
(* objective (Solved) and, when that is false, the feedback                *)
(* (NewHash and Solvable and Statistics, short-circuit); an interesting    *)
(* input is added to the corpus and handed to scheduler on_add.            *)
(***************************************************************************)
\* What an evaluation leaves: tag is Ok, panic or error, the rest the new state.
Evaluated(tag, corp, next_idx, sols, md, seen, state, set, moves) ==
  [tag |-> tag, corpus |-> corp, progressive_idx |-> next_idx, solutions |-> sols,
   metadata |-> md, hash_set |-> seen, last_state |-> state,
   most_set |-> set, most_moves |-> moves]

\* The corpus adds the input under the next id and the scheduler's on_add runs
\* (added is its result); the Statistics feedback has updated its counters.
evaluate_added(added, seen, state, input) ==
  Evaluated(added.tag, added.corpus, progressive_idx + 1, solutions, added.metadata,
            seen, state, Max(most_set, CountSet(state)), Max(most_moves, Len(input)))

\* evaluate_feedback with a NewHash that records no hash
evaluate_feedback_records_nothing(input, corp, md, state) ==
  IF state = NoState
  THEN Evaluated("Ok", corp, progressive_idx, solutions, md, hash_set, state,
                 most_set, most_moves)
  ELSE IF NewHashFeedback_is_interesting(state, hash_set)
          /\ SokobanSolvableFeedback_is_interesting(state)
  THEN evaluate_added(
         on_add(md, (progressive_idx :> Testcase(input)) @@ corp, progressive_idx),
         hash_set, state, input)
  ELSE Evaluated("Ok", corp, progressive_idx, solutions, md, hash_set, state,
                 most_set, most_moves)

\* The feedback of main.rs 164-168 on an input that is no solution: NewHash (which
\* records the hash), then Solvable, then Statistics
evaluate_feedback(input, corp, md, state) ==
  IF state = NoState
  THEN Evaluated("Ok", corp, progressive_idx, solutions, md, hash_set, state,
                 most_set, most_moves)
  ELSE IF NewHashFeedback_is_interesting(state, hash_set)
          /\ SokobanSolvableFeedback_is_interesting(state)
  THEN evaluate_added(
         on_add(md, (progressive_idx :> Testcase(input)) @@ corp, progressive_idx),
         hash_set \cup {hash(state)}, state, input)
  ELSE Evaluated("Ok", corp, progressive_idx, solutions, md,
                 hash_set \cup {hash(state)}, state, most_set, most_moves)

\* After the executor ran (state is the observer's last_state) and on_evaluation
\* ran (evaluation is its result): the objective of main.rs 169, then the feedback
evaluate_observed(input, corp, state, evaluation) ==
  IF evaluation.tag # "Ok"
  THEN Evaluated(evaluation.tag, corp, progressive_idx, solutions, metadata, hash_set,
                 state, most_set, most_moves)
  ELSE IF SokobanSolvedFeedback_is_interesting(state)
  THEN Evaluated("Ok", corp, progressive_idx, Append(solutions, input),
                 evaluation.metadata, hash_set, state, most_set, most_moves)
  ELSE evaluate_feedback(input, corp, evaluation.metadata, state)

\* main.rs 164-169, 187-194: fuzzer.evaluate_input with the executor, feedback and
\* objective fuzz installs, on a corpus corp
evaluate_input(input, corp) ==
  evaluate_observed(input, corp, run_target(input, hallucination).last_state,
                    on_evaluation(metadata, corp, current))

\* Publish with an executor that leaves the state it published in the
\* LastHallucination slot
Publish_slot_kept(out, then) ==
  /\ corpus' = out.corpus
  /\ progressive_idx' = out.progressive_idx
  /\ solutions' = out.solutions
  /\ metadata' = out.metadata
  /\ hash_set' = out.hash_set
  /\ last_state' = out.last_state
  /\ most_set' = out.most_set
  /\ most_moves' = out.most_moves
  /\ hallucination' = out.last_state
  /\ pc' = IF out.tag = "Ok" THEN then ELSE out.tag

\* The evaluation's result becomes the state; the driver goes on at then unless
\* the evaluation failed.
Publish(out, then) ==
  /\ corpus' = out.corpus
  /\ progressive_idx' = out.progressive_idx
  /\ solutions' = out.solutions
  /\ metadata' = out.metadata
  /\ hash_set' = out.hash_set
  /\ last_state' = out.last_state
  /\ most_set' = out.most_set
  /\ most_moves' = out.most_moves
  /\ hallucination' = NoState
  /\ pc' = IF out.tag = "Ok" THEN then ELSE out.tag

NoApplication == [function |-> "none"]

NoCall ==
  [mutator |-> "none", result |-> "none", moves_before |-> <<>>, moves_after |-> <<>>,
   hallucinated_before |-> NoState, hallucinated_after |-> NoState,
   moves_remaining_before |-> <<>>, moves_remaining_after |-> <<>>,
   targets_remaining_before |-> <<>>, targets_remaining_after |-> <<>>]

Reverse(seq) == [i \in 1..Len(seq) |-> seq[Len(seq) + 1 - i]]

\* try_transform_from folding the moves from the last to the first
try_transform_from_reversed(base) == try_fold(initial, Reverse(base.input))

\* HallucinatedSokobanInput::try_transform_from
try_transform_from(base) == try_fold(initial, base.input)

\* main.rs 189-194: the empty input is evaluated; main.rs 205: the loop's test
Seeded(out) == Publish(out, IF out.solutions # <<>> THEN "done" ELSE "next")

Seed ==
  /\ pc = "seed"
  /\ Seeded(evaluate_input(<<>>, corpus))
  /\ UNCHANGED <<initial, max_size, current, iter, last_call, applied>>

\* SokobanWeightScheduler::next 135-149: pruned is the corpus without the pruneable
\* testcases, idx the id the scan selected
Selected(pruned, idx) ==
  /\ corpus' = pruned.corpus
  /\ metadata' = [metadata EXCEPT !.pruneable = <<>>]
  /\ current' = IF pruned.tag = "Ok" /\ idx # NoId THEN idx ELSE current
  /\ pc' = IF pruned.tag # "Ok" THEN "error"
           ELSE IF idx = NoId THEN "panic_next" ELSE "oneshot"

\* SokobanWeightScheduler::next, at the start of fuzz_one
SchedulerNext ==
  /\ pc = "next"
  /\ \E selected \in Below(metadata.total_weight) :
     \E order \in SeqPerms(DOMAIN metadata.weight) :
       Selected(remove_all(1, metadata.pruneable, corpus),
                scan_weights(1, order, metadata.weight, selected))
  /\ iter' = 0
  /\ UNCHANGED <<initial, max_size, progressive_idx, solutions, hash_set, last_state,
                 hallucination, most_set, most_moves, last_call, applied>>

\* Popped with the mutated moves written back to the testcase
Popped_with_moves(out) ==
  [corpus EXCEPT ![current] =
     [input |-> out.moves,
      remaining_mutations |->
        [moves_remaining |-> out.moves_remaining,
         move_to_targets_remaining |-> out.targets_remaining]]]

\* The corpus after a mutate call on the testcase current left out
Popped(out) ==
  [corpus EXCEPT ![current].remaining_mutations =
     [moves_remaining |-> out.moves_remaining,
      move_to_targets_remaining |-> out.targets_remaining]]

\* What a mutate call on the testcase tc, transformed to base, left
Called(name, tc, base, out) ==
  [mutator |-> name, result |-> out.result,
   moves_before |-> tc.input, moves_after |-> out.moves,
   hallucinated_before |-> base, hallucinated_after |-> out.hallucinated,
   moves_remaining_before |-> tc.remaining_mutations.moves_remaining,
   moves_remaining_after |-> out.moves_remaining,
   targets_remaining_before |-> tc.remaining_mutations.move_to_targets_remaining,
   targets_remaining_after |-> out.targets_remaining]

\* One iteration of a mutational stage on the testcase current: the mutate call
\* (out is what it left), then evaluate_input when it returned Mutated.
StageIteration(name, base, out) ==
  /\ iter' = iter + 1
  /\ last_call' = Called(name, corpus[current], base, out)
  /\ IF out.result = "Mutated"
     THEN Publish(evaluate_input(out.moves, Popped(out)), pc)
     ELSE /\ corpus' = Popped(out)
          /\ pc' = IF out.result = "Panic" THEN "panic_mutate" ELSE pc
          /\ UNCHANGED <<progressive_idx, solutions, metadata, hash_set, last_state,
                         hallucination, most_set, most_moves>>
  /\ UNCHANGED <<initial, max_size, current, applied>>

\* Option::expect in try_transform_from failed: the program panics
TransformPanics ==
  /\ pc' = "panic_transform"
  /\ UNCHANGED <<initial, max_size, corpus, progressive_idx, current, solutions, metadata,
                 hash_set, last_state, hallucination, most_set, most_moves, iter, last_call, applied>>

OneShotIteration(tc, base) ==
  IF base.tag = "Err" THEN TransformPanics
  ELSE \E targets \in Shuffles(base.st.targets) :
       \E crates \in Shuffles(find_crates(base.st)) :
         StageIteration("OneShot", base.st,
           OneShotMutator_mutate(base.st, tc.input, max_size, targets, crates,
             tc.remaining_mutations.moves_remaining,
             tc.remaining_mutations.move_to_targets_remaining))

\* main.rs 196: StdMutationalStage::transforming(OneShotMutator), one iteration
OneShotStage ==
  /\ pc = "oneshot"
  /\ iter < MaxIter
  /\ OneShotIteration(corpus[current], try_transform_from(corpus[current]))

MoveCrateIteration(tc, base) ==
  IF base.tag = "Err" THEN TransformPanics
  ELSE StageIteration("MoveCrate", base.st,
         MoveCrateMutator_mutate(base.st, tc.input, max_size,
           tc.remaining_mutations.moves_remaining,
           tc.remaining_mutations.move_to_targets_remaining))

\* main.rs 197: StdMutationalStage::transforming(MoveCrateMutator), one iteration
MoveCrateStage ==
  /\ pc = "move_crate"
  /\ iter < MaxIter
  /\ MoveCrateIteration(corpus[current], try_transform_from(corpus[current]))

MoveCrateToTargetIteration(tc, base) ==
  IF base.tag = "Err" THEN TransformPanics
  ELSE StageIteration("MoveCrateToTarget", base.st,
         MoveCrateToTargetMutator_mutate(base.st, tc.input, max_size,
           tc.remaining_mutations.moves_remaining,
           tc.remaining_mutations.move_to_targets_remaining))

\* main.rs 198: StdMutationalStage::transforming(MoveCrateToTargetMutator), one iteration
MoveCrateToTargetStage ==
  /\ pc = "move_crate_to_target"
  /\ iter < MaxIter
  /\ MoveCrateToTargetIteration(corpus[current], try_transform_from(corpus[current]))

\* main.rs 200: the stages in order; a stage ends after one or more iterations.
\* main.rs 205: after the last stage the loop runs again while solutions is empty.
StageDone ==
  /\ pc \in {"oneshot", "move_crate", "move_crate_to_target"}
  /\ iter >= 1
  /\ pc' = IF pc = "oneshot" THEN "move_crate"
           ELSE IF pc = "move_crate" THEN "move_crate_to_target"
           ELSE IF solutions # <<>> THEN "done" ELSE "next"
  /\ iter' = 0
  /\ UNCHANGED <<initial, max_size, corpus, progressive_idx, current, solutions, metadata,
                 hash_set, last_state, hallucination, most_set, most_moves, last_call, applied>>

W == Wall
F == Floor
C == Crate

\* A corridor: the crate is pushed right onto the target.
PuzzleCorridor ==
  NewState(<<W, W, W, W, W, W,
             W, F, F, C, F, W,
             W, W, W, W, W, W>>, <<1, 1>>, <<<<1, 4>>>>, 3, 6)

\* Two rows: the player walks down, then pushes right.
PuzzleTwoRows ==
  NewState(<<W, W, W, W, W,
             W, F, F, F, W,
             W, F, C, F, W,
             W, W, W, W, W>>, <<1, 1>>, <<<<2, 3>>>>, 4, 5)

\* One crate, two targets: never solved; the crate cannot leave its row.
PuzzleTwoTargets ==
  NewState(<<W, W, W, W, W, W,
             W, F, F, F, F, W,
             W, F, C, F, F, W,
             W, W, W, W, W, W>>, <<1, 1>>, <<<<2, 4>>, <<1, 4>>>>, 4, 6)

\* The crate stands at the right wall: it is pushed down only, after two pairs of
\* its budget have failed.
PuzzleWallRight ==
  NewState(<<W, W, W, W, W,
             W, F, F, F, W,
             W, F, F, C, W,
             W, F, F, F, W,
             W, W, W, W, W>>, <<1, 1>>, <<<<3, 3>>>>, 5, 5)

\* The crate stands in a corner that is no target: it cannot be pushed.
PuzzleCornered ==
  NewState(<<W, W, W, W, W,
             W, C, F, F, W,
             W, F, F, F, W,
             W, W, W, W, W>>, <<2, 2>>, <<<<1, 3>>>>, 4, 5)

\* Two crates, one target: the target holds a crate from the start, the other
\* crate stands in a corner.
PuzzleSolvedCornered ==
  NewState(<<W, W, W, W, W, W,
             W, C, F, C, F, W,
             W, W, W, W, W, W>>, <<1, 4>>, <<<<1, 3>>>>, 3, 6)

\* Two crates, two targets: a step and a push right, then a push down solve it.
PuzzleTwoCrates ==
  NewState(<<W, W, W, W, W, W,
             W, F, F, C, F, W,
             W, W, W, C, W, W,
             W, W, W, F, W, W,
             W, W, W, W, W, W>>, <<1, 1>>, <<<<1, 4>>, <<3, 3>>>>, 5, 6)

Puzzles ==
  {PuzzleCorridor, PuzzleTwoRows, PuzzleTwoTargets, PuzzleWallRight,
   PuzzleCornered, PuzzleSolvedCornered, PuzzleTwoCrates}

Init ==
  /\ initial \in Puzzles
  /\ max_size \in 1..MaxSize
  /\ corpus = <<>>
  /\ progressive_idx = 0
  /\ current = NoId
  /\ solutions = <<>>
  /\ metadata = SokobanWeightSchedulerMetadata_default
  /\ hash_set = {}
  /\ last_state = NoState
  /\ hallucination = NoState
  /\ most_set = 0
  /\ most_moves = 0
  /\ pc = "seed"
  /\ iter = 0
  /\ last_call = NoCall
  /\ applied = NoApplication

Next ==
  \/ Seed
  \/ SchedulerNext
  \/ OneShotStage
  \/ MoveCrateStage
  \/ MoveCrateToTargetStage
  \/ StageDone

Spec == Init /\ [][Next]_vars

(***************************************************************************)
(* util.rs on its own: push_to applied to a crate and a destination of a   *)
(* grid of 5 x 5 whose border is Wall, as the grids of the tests in        *)
(* util.rs are.                                                            *)
(***************************************************************************)
\* The squares inside the border, in grid order
Inside == <<<<1, 1>>, <<1, 2>>, <<1, 3>>,
            <<2, 1>>, <<2, 2>>, <<2, 3>>,
            <<3, 1>>, <<3, 2>>, <<3, 3>>>>

Holding(cells, tile) == {k \in DOMAIN cells : cells[k] = tile}

Layouts ==
  {cells \in [DOMAIN Inside -> {Wall, Floor, Crate}] :
     /\ Cardinality(Holding(cells, Crate)) \in 1..MaxCrates
     /\ Cardinality(Holding(cells, Wall)) <= MaxWalls}

Grid(cells, player) ==
  NewState(<<W, W, W, W, W,
             W, cells[1], cells[2], cells[3], W,
             W, cells[4], cells[5], cells[6], W,
             W, cells[7], cells[8], cells[9], W,
             W, W, W, W, W>>, player, <<>>, 5, 5)

Grids == UNION {{Grid(cells, Inside[k]) : k \in Holding(cells, Floor)} : cells \in Layouts}

\* The player stands in a dead end closed by the crate: the crate is pushed right,
\* walked around, and pushed back left over the square it started on.
PuzzleBoxedIn ==
  NewState(<<W, W, W, W, W, W,
             W, F, C, F, F, W,
             W, W, F, F, F, W,
             W, F, F, F, F, W,
             W, W, W, W, W, W>>, <<1, 1>>, <<>>, 5, 6)

InitUtil ==
  /\ initial \in Grids \cup {PuzzleBoxedIn}
  /\ max_size = MaxSize
  /\ corpus = <<>>
  /\ progressive_idx = 0
  /\ current = NoId
  /\ solutions = <<>>
  /\ metadata = SokobanWeightSchedulerMetadata_default
  /\ hash_set = {}
  /\ last_state = NoState
  /\ hallucination = NoState
  /\ most_set = 0
  /\ most_moves = 0
  /\ pc = "util"
  /\ iter = 0
  /\ last_call = NoCall
  /\ applied = NoApplication

\* push_to(start, destination, &puzzle) and what its moves, executed on the
\* puzzle, lead to
PushedTo(start, destination, path) ==
  [function |-> "push_to", start |-> start, destination |-> destination,
   path |-> path, executed |-> try_fold(initial, path.moves)]

ApplyPushTo ==
  /\ pc = "util"
  /\ applied = NoApplication
  /\ \E c \in DOMAIN find_crates(initial) : \E d \in DOMAIN Inside :
       applied' = PushedTo(find_crates(initial)[c], Inside[d],
                           push_to(find_crates(initial)[c], Inside[d], initial))
  /\ UNCHANGED <<initial, max_size, corpus, progressive_idx, current, solutions, metadata,
                 hash_set, last_state, hallucination, most_set, most_moves, pc, iter, last_call>>

NextUtil == ApplyPushTo

SpecUtil == InitUtil /\ [][NextUtil]_vars

(***************************************************************************)
(* util.rs on its own: go_to and can_go_to applied to two positions of a   *)
(* grid.  The grids are those above and the grid of test_go_to_simple;     *)
(* the positions are the squares inside the border of the small grids, a   *)
(* corner of the border, and the two positions of test_go_to_simple,       *)
(* which lie outside the small grids.                                      *)
(***************************************************************************)
\* util.rs: test_go_to_simple, 20 x 20 with nothing inside the border
PuzzleGoToSimple ==
  NewState([k \in 1..400 |->
              IF (k - 1) \div 20 \in {0, 19} \/ (k - 1) % 20 \in {0, 19} THEN W ELSE F],
           <<4, 14>>, <<>>, 20, 20)

\* util.rs: test_go_to_impossible, 19 x 20 with a wall down column 9
PuzzleGoToImpossible ==
  NewState([k \in 1..380 |->
              IF (k - 1) \div 20 \in {0, 18} \/ (k - 1) % 20 \in {0, 9, 19} THEN W ELSE F],
           <<3, 14>>, <<>>, 19, 20)

FirstFloor(cells) == CHOOSE k \in Holding(cells, Floor) : \A j \in Holding(cells, Floor) : k <= j

WalkGrids ==
  {Grid(cells, Inside[FirstFloor(cells)]) : cells \in Layouts}
    \cup {PuzzleGoToSimple, PuzzleGoToImpossible}

Positions == {Inside[k] : k \in DOMAIN Inside} \cup {<<0, 0>>, <<3, 14>>, <<15, 3>>}

InitWalk ==
  /\ initial \in WalkGrids
  /\ max_size = MaxSize
  /\ corpus = <<>>
  /\ progressive_idx = 0
  /\ current = NoId
  /\ solutions = <<>>
  /\ metadata = SokobanWeightSchedulerMetadata_default
  /\ hash_set = {}
  /\ last_state = NoState
  /\ hallucination = NoState
  /\ most_set = 0
  /\ most_moves = 0
  /\ pc = "walk"
  /\ iter = 0
  /\ last_call = NoCall
  /\ applied = NoApplication

\* go_to(start, destination, &puzzle) and what its moves lead to when executed
\* with the player at start
WalkedTo(start, destination, path) ==
  [function |-> "go_to", start |-> start, destination |-> destination,
   path |-> path, executed |-> try_fold([initial EXCEPT !.player = start], path.moves)]

ApplyGoTo ==
  /\ pc = "walk"
  /\ applied = NoApplication
  /\ \E start \in Positions : \E destination \in Positions :
       applied' = WalkedTo(start, destination, go_to(start, destination, initial))
  /\ UNCHANGED <<initial, max_size, corpus, progressive_idx, current, solutions, metadata,
                 hash_set, last_state, hallucination, most_set, most_moves, pc, iter, last_call>>

ApplyCanGoTo ==
  /\ pc = "walk"
  /\ applied = NoApplication
  /\ \E start \in Positions : \E destination \in Positions :
       applied' = [function |-> "can_go_to", start |-> start, destination |-> destination,
                   reachable |-> can_go_to(start, destination, initial)]
  /\ UNCHANGED <<initial, max_size, corpus, progressive_idx, current, solutions, metadata,
                 hash_set, last_state, hallucination, most_set, most_moves, pc, iter, last_call>>

NextWalk ==
  \/ ApplyGoTo
  \/ ApplyCanGoTo

SpecWalk == InitWalk /\ [][NextWalk]_vars

(***************************************************************************)
(* The executor on its own: fuzzer.evaluate_input, as main.rs 189-194      *)
(* calls it, on one input after another, legal or not, with no testcase    *)
(* selected.                                                               *)
(***************************************************************************)
\* At most MaxExecutions inputs are executed,
MaxExecutions == 2
\* each of at most MaxMoves moves.
MaxMoves == 2

Inputs == UNION {[1..n -> {Up, Down, Left, Right}] : n \in 0..MaxMoves}

InitExec ==
  /\ initial \in Puzzles
  /\ max_size = MaxSize
  /\ corpus = <<>>
  /\ progressive_idx = 0
  /\ current = NoId
  /\ solutions = <<>>
  /\ metadata = SokobanWeightSchedulerMetadata_default
  /\ hash_set = {}
  /\ last_state = NoState
  /\ hallucination = NoState
  /\ most_set = 0
  /\ most_moves = 0
  /\ pc = "exec"
  /\ iter = 0
  /\ last_call = NoCall
  /\ applied = NoApplication

\* What SokobanExecutor::run_target returned for input
Ran(input, ran) == [function |-> "run_target", input |-> input, exit_kind |-> ran.exit_kind]

Execute ==
  /\ pc = "exec"
  /\ iter < MaxExecutions
  /\ \E input \in Inputs :
       /\ Publish(evaluate_input(input, corpus), pc)
       /\ applied' = Ran(input, run_target(input, hallucination))
  /\ iter' = iter + 1
  /\ UNCHANGED <<initial, max_size, current, last_call>>

NextExec == Execute

SpecExec == InitExec /\ [][NextExec]_vars

(***************************************************************************)
(* The driver under fairness: the loop of main.rs 205-215 does not stall    *)
(* between two stages nor between two iterations: a stage that has         *)
(* performed its iterations ends, and fuzz_one calls next.                 *)
(***************************************************************************)
\* The testcase ids the pruning property ranges over: 0..MaxEntries - 1
MaxEntries == 4
Ids == 0..(MaxEntries - 1)

FairSpec ==
  /\ Spec
  /\ WF_vars(StageDone)
  /\ WF_vars(SchedulerNext)

(***************************************************************************)
(* input.rs: the name the corpus gives an input, on its own:               *)
(* generate_name on one input and one corpus id after another.             *)
(***************************************************************************)
\* generate_name with one letter for Left and for Right
generate_name_one_letter_sideways(moves, idx) ==
  [i \in 1..Len(moves) |->
     CASE moves[i] = Up -> "U"
       [] moves[i] = Down -> "D"
       [] moves[i] = Left -> "L"
       [] moves[i] = Right -> "L"]

\* SokobanInput::generate_name: the name is a string, one byte per move; the
\* model keeps it as the sequence of its characters.  idx is not used.
generate_name(moves, idx) ==
  [i \in 1..Len(moves) |->
     CASE moves[i] = Up -> "U"
       [] moves[i] = Down -> "D"
       [] moves[i] = Left -> "L"
       [] moves[i] = Right -> "R"]

\* The inputs named have at most MaxNamed moves.
MaxNamed == 3

Nameable == UNION {[1..n -> {Up, Down, Left, Right}] : n \in 0..MaxNamed}

InitName ==
  /\ initial = PuzzleCorridor
  /\ max_size = MaxSize
  /\ corpus = <<>>
  /\ progressive_idx = 0
  /\ current = NoId
  /\ solutions = <<>>
  /\ metadata = SokobanWeightSchedulerMetadata_default
  /\ hash_set = {}
  /\ last_state = NoState
  /\ hallucination = NoState
  /\ most_set = 0
  /\ most_moves = 0
  /\ pc = "name"
  /\ iter = 0
  /\ last_call = NoCall
  /\ applied = NoApplication

\* What generate_name returned for input under the id idx
Named(input, idx, name) ==
  [function |-> "generate_name", input |-> input, idx |-> idx, name |-> name]

ApplyGenerateName ==
  /\ pc = "name"
  /\ \E input \in Nameable : \E idx \in Ids :
       applied' = Named(input, idx, generate_name(input, idx))
  /\ UNCHANGED <<initial, max_size, corpus, progressive_idx, current, solutions, metadata,
                 hash_set, last_state, hallucination, most_set, most_moves, pc, iter,
                 last_call>>

NextName == ApplyGenerateName

SpecName == InitName /\ [][NextName]_vars

(***************************************************************************)
(* mutators.rs: RandomPreferenceMutator on its own, one mutate call after   *)
(* another.  Its children are any mutators: a call is modelled up to the   *)
(* child it selects.  The record applied holds the mutator's fields, and   *)
(* for the properties the number of the call that redrew the weights last  *)
(* and whether the last call redrew them; iter counts the calls.           *)
(***************************************************************************)
\* The mutator has at most MaxChildren children (mutators.len()),
MaxChildren == 3
\* and is called at most MaxCalls times.
MaxCalls == 8
\* WEIGHT_PRECISION (64 in mutators.rs 242), scaled down
WEIGHT_PRECISION == 2
\* REWEIGHT_FREQUENCY (10_000 in mutators.rs 243), scaled down
REWEIGHT_FREQUENCY == 2

\* std::iter::repeat(id).take(amount)
Repeat(id, amount) == [k \in 1..amount |-> id]

\* mutators.rs 284-289: the table of child ids, child i (from 0) amounts[i + 1] times
RECURSIVE extend_weights(_, _)
extend_weights(i, amounts) ==
  IF i > Len(amounts) THEN <<>>
  ELSE Repeat(i - 1, amounts[i]) \o extend_weights(i + 1, amounts)

RECURSIVE SumSeq(_)
SumSeq(amounts) ==
  IF amounts = <<>> THEN 0 ELSE Head(amounts) + SumSeq(Tail(amounts))

\* RandomPreferenceMutator::new, with len children
RandomPreferenceMutator_new(len) ==
  [function |-> "RandomPreferenceMutator", len |-> len, weights |-> <<>>,
   total_weight |-> 0, until_reweight |-> 0, idx |-> NoId,
   redrawn |-> FALSE, last_redraw |-> 0]

\* mutate 281-289: the weights are redrawn, child i gets amounts[i + 1]; call is
\* the number of this call
reweighted(self, amounts, call) ==
  [self EXCEPT !.until_reweight = REWEIGHT_FREQUENCY,
               !.total_weight = SumSeq(amounts),
               !.weights = extend_weights(1, amounts),
               !.redrawn = TRUE, !.last_redraw = call]

\* mutate 291
counted_down(self) ==
  [self EXCEPT !.until_reweight = self.until_reweight - 1, !.redrawn = FALSE]

\* mutate 294-295: the child the draw r selects; the index panics off the table
sampled(self, r) ==
  [self EXCEPT !.idx = IF r + 1 \in DOMAIN self.weights THEN self.weights[r + 1] ELSE NoId]

InitPref ==
  /\ initial = PuzzleCorridor
  /\ max_size = MaxSize
  /\ corpus = <<>>
  /\ progressive_idx = 0
  /\ current = NoId
  /\ solutions = <<>>
  /\ metadata = SokobanWeightSchedulerMetadata_default
  /\ hash_set = {}
  /\ last_state = NoState
  /\ hallucination = NoState
  /\ most_set = 0
  /\ most_moves = 0
  /\ pc = "pref"
  /\ iter = 0
  /\ last_call = NoCall
  /\ applied \in {RandomPreferenceMutator_new(len) : len \in 1..MaxChildren}

\* RandomPreferenceMutator::mutate
RandomPreferenceMutate ==
  /\ pc = "pref"
  /\ iter < MaxCalls
  /\ IF applied.until_reweight = 0
     THEN \E amounts \in [1..applied.len -> 1..WEIGHT_PRECISION] :
          \E r \in Below(SumSeq(amounts)) :
            applied' = sampled(reweighted(applied, amounts, iter + 1), r)
     ELSE \E r \in Below(applied.total_weight) :
            applied' = sampled(counted_down(applied), r)
  /\ pc' = IF applied'.idx = NoId THEN "panic_mutate" ELSE pc
  /\ iter' = iter + 1
  /\ UNCHANGED <<initial, max_size, corpus, progressive_idx, current, solutions, metadata,
                 hash_set, last_state, hallucination, most_set, most_moves, last_call>>

NextPref == RandomPreferenceMutate

SpecPref == InitPref /\ [][NextPref]_vars

(***************************************************************************)
(* Properties                                                              *)
(***************************************************************************)
Replay(moves) == try_fold(initial, moves)

Stages == {"oneshot", "move_crate", "move_crate_to_target"}

\* C1: every input held in the corpus replays from the initial puzzle without an
\* error, and so neither the expect of try_transform_from nor the unwrap of on_add
\* fires.
C1_CorpusReplays ==
  /\ \A id \in DOMAIN corpus : Replay(corpus[id].input).tag = "Ok"
  /\ pc \notin {"panic_transform", "panic_on_add"}

\* A stage has transformed a testcase whose input is not empty, which on_add had
\* replayed when it was added.
C1_Witness ==
  /\ pc \in Stages /\ iter >= 1
  /\ current \in DOMAIN corpus
  /\ corpus[current].input # <<>>
  /\ last_call.moves_before = corpus[current].input

\* The evaluation of the step returned: the driver did not stop in it.
Returned == pc' \in Stages \cup {"next", "done"}

\* The input the step executed: the empty one at the seed, the mutated one in a stage.
Executed == IF pc = "seed" THEN <<>> ELSE last_call'.moves_after

IsExecution ==
  \/ pc = "seed"
  \/ pc \in Stages /\ iter' = iter + 1 /\ last_call'.result = "Mutated"

AddedToSolutions(input) == solutions' = Append(solutions, input)

C2_Step ==
  /\ IsExecution /\ Returned =>
       /\ AddedToSolutions(Executed) <=>
            (Replay(Executed).tag = "Ok" /\ in_solution_state(Replay(Executed).st))
       /\ solutions' # solutions => AddedToSolutions(Executed)
  /\ ~IsExecution => solutions' = solutions

C2_State ==
  /\ \A i \in DOMAIN solutions :
       Replay(solutions[i]).tag = "Ok" /\ in_solution_state(Replay(solutions[i]).st)
  /\ Len(find_crates(initial)) < Len(initial.targets) => solutions = <<>>

C3_HallucinationIsReplay ==
  last_call.result = "Mutated" /\ Replay(last_call.moves_before).st = last_call.hallucinated_before
    => /\ Replay(last_call.moves_after).tag = "Ok"
       /\ Replay(last_call.moves_after).st = last_call.hallucinated_after

\* MoveCrate has extended an input that was not empty.
C3_Witness ==
  /\ last_call.mutator = "MoveCrate" /\ last_call.result = "Mutated"
  /\ last_call.moves_before # <<>>
  /\ Len(last_call.moves_after) > Len(last_call.moves_before)

\* C4 as stated: a mutate call on an input of at most max_size moves leaves at
\* most max_size moves.
C4_WithinMaxSize ==
  last_call.mutator # "none" /\ Len(last_call.moves_before) <= max_size
    => Len(last_call.moves_after) <= max_size

\* C5 as stated: a Mutated call of MoveCrate removes exactly one pair of
\* moves_remaining, one of MoveCrateToTarget exactly one of targets_remaining.
C5_ExactlyOne ==
  /\ last_call.mutator = "MoveCrate" /\ last_call.result = "Mutated"
       => Len(last_call.moves_remaining_after) = Len(last_call.moves_remaining_before) - 1
  /\ last_call.mutator = "MoveCrateToTarget" /\ last_call.result = "Mutated"
       => Len(last_call.targets_remaining_after) = Len(last_call.targets_remaining_before) - 1

\* after is before without one or more of its last elements
ProperPrefix(after, before) ==
  Len(after) < Len(before) /\ after = SubSeq(before, 1, Len(after))

\* C5: a Mutated call of MoveCrate removes from the end of moves_remaining the pair
\* it applied and every pair it tried before it, one element or more, and leaves
\* targets_remaining alone; MoveCrateToTarget likewise with targets_remaining.
C5_Removed ==
  /\ last_call.mutator = "MoveCrate" /\ last_call.result = "Mutated"
       => /\ ProperPrefix(last_call.moves_remaining_after, last_call.moves_remaining_before)
          /\ last_call.moves_remaining_before[Len(last_call.moves_remaining_after) + 1][2]
               = Last(last_call.moves_after)
          /\ last_call.targets_remaining_after = last_call.targets_remaining_before
  /\ last_call.mutator = "MoveCrateToTarget" /\ last_call.result = "Mutated"
       => /\ ProperPrefix(last_call.targets_remaining_after, last_call.targets_remaining_before)
          /\ Tile(last_call.hallucinated_after,
                  last_call.targets_remaining_before[Len(last_call.targets_remaining_after) + 1][2])
               = Crate
          /\ last_call.moves_remaining_after = last_call.moves_remaining_before

\* MoveCrate returned Mutated after two pairs had failed before the one it applied.
C5_Witness ==
  /\ last_call.mutator = "MoveCrate" /\ last_call.result = "Mutated"
  /\ Len(last_call.moves_remaining_after) = Len(last_call.moves_remaining_before) - 3

\* C6: total_weight is the sum of the weights of the weight map.
C6_TotalWeight == metadata.total_weight = SumWeights(metadata.weight)

\* on_add has run twice or more, on_evaluation has changed a weight, next has run.
C6_Witness ==
  /\ Cardinality(DOMAIN metadata.weight) >= 2
  /\ \E id \in DOMAIN metadata.weight : metadata.weight[id] # metadata.max_weight
  /\ pc = "oneshot"

Budget(tc) == tc.remaining_mutations

Crates(tc) == Len(find_crates(Replay(tc.input).st))

C7_Step ==
  \A id \in DOMAIN corpus' :
    IF id \in DOMAIN corpus
    THEN /\ Len(Budget(corpus'[id]).moves_remaining) <= Len(Budget(corpus[id]).moves_remaining)
         /\ Len(Budget(corpus'[id]).move_to_targets_remaining)
              <= Len(Budget(corpus[id]).move_to_targets_remaining)
    ELSE /\ Len(Budget(corpus'[id]).moves_remaining) = 4 * Crates(corpus'[id])
         /\ Len(Budget(corpus'[id]).move_to_targets_remaining)
              = Crates(corpus'[id]) * Len(initial.targets)

\* C7: a testcase is added with 4 pairs of moves_remaining for each crate of the
\* state its input leads to and with crates x targets pairs of targets_remaining;
\* from then on neither vector grows.
C7_BudgetSizes == [][C7_Step]_vars

\* A testcase whose budget has shrunk stands beside one added later.
C7_Witness ==
  \E id, later \in DOMAIN corpus :
    /\ id < later
    /\ Len(Budget(corpus[id]).moves_remaining) < 4 * Crates(corpus[id])
    /\ Len(Budget(corpus[id]).move_to_targets_remaining)
         < Crates(corpus[id]) * Len(initial.targets)

Exhausted(tc) ==
  Budget(tc).moves_remaining = <<>> /\ Budget(tc).move_to_targets_remaining = <<>>

InPruneable(id) == \E i \in DOMAIN metadata.pruneable : metadata.pruneable[i] = id

\* C8 as stated: between two iterations of the loop, a testcase of the corpus with
\* both vectors empty is in pruneable and not in the weight map.
C8_ExhaustedIsPruneable ==
  pc = "next" =>
    \A id \in DOMAIN corpus :
      Exhausted(corpus[id]) => InPruneable(id) /\ id \notin DOMAIN metadata.weight

\* The loop keeps running and next keeps selecting the testcase id.
KeepsBeingScheduled(id) ==
  /\ []<>(pc = "next")
  /\ []<>(pc = "oneshot" /\ iter = 0 /\ current = id)

\* C9 as stated: while the loop keeps running and the testcase keeps being selected,
\* a testcase of the corpus whose budget is exhausted is later removed from the
\* corpus.
C9_ExhaustedIsPruned ==
  \A id \in Ids :
    KeepsBeingScheduled(id) =>
      ((id \in DOMAIN corpus /\ Exhausted(corpus[id])) ~> (id \notin DOMAIN corpus))

\* C10: when push_to gives moves for a crate and a Floor square other than the
\* crate's, the moves execute on the puzzle without an error and leave a Crate on
\* the destination and Floor where the crate was.
C10_PushToPushes ==
  (/\ applied.function = "push_to"
   /\ applied.path.tag = "Some"
   /\ Tile(initial, applied.destination) = Floor
   /\ applied.destination # applied.start)
    => /\ applied.executed.tag = "Ok"
       /\ Tile(applied.executed.st, applied.destination) = Crate
       /\ Tile(applied.executed.st, applied.start) = Floor

\* push_to gave moves that push the crate along two directions, with walks between.
C10_Witness ==
  /\ applied.function = "push_to" /\ applied.path.tag = "Some"
  /\ applied.destination[1] # applied.start[1]
  /\ applied.destination[2] # applied.start[2]
  /\ Len(find_crates(initial)) = 2

\* C12 as stated: push_to of a crate to the square it stands on gives the empty
\* sequence of moves.
C12_PushToItself ==
  applied.function = "push_to" /\ applied.destination = applied.start
    => applied.path = SomeMoves(<<>>)

(***************************************************************************)
(* Walking: what go_to is measured against.                                *)
(***************************************************************************)
Directions == {Up, Down, Left, Right}

IsFloor(puzzle, pos) == InBounds(pos, puzzle) /\ Tile(puzzle, pos) = Floor

\* The Floor squares one step from pos
FloorBeside(puzzle, pos) == {n \in {go(d, pos) : d \in Directions} : IsFloor(puzzle, n)}

\* The least number of steps over Floor squares from a square of frontier to
\* destination, counted from k; -1 when there is no way.  seen holds frontier.
RECURSIVE Distance(_, _, _, _, _)
Distance(puzzle, destination, seen, frontier, k) ==
  IF destination \in frontier THEN k
  ELSE IF frontier = {} THEN -1
  ELSE Distance(puzzle, destination,
                seen \cup UNION {FloorBeside(puzzle, p) : p \in frontier},
                UNION {FloorBeside(puzzle, p) : p \in frontier} \ seen, k + 1)

Steps(start, destination) == Distance(initial, destination, {start}, {start}, 0)

Abs(n) == IF n < 0 THEN 0 - n ELSE n

\* The state after the first k moves of the path go_to gave
WalkedPrefix(k) ==
  try_fold([initial EXCEPT !.player = applied.start], SubSeq(applied.path.moves, 1, k))

\* C13: for two Floor squares with a way over Floor squares from the first to the
\* second, go_to gives moves that are legal one after the other for a player at the
\* first, move no crate, and leave the player at the second.
C13_GoToWalks ==
  (/\ applied.function = "go_to"
   /\ IsFloor(initial, applied.start)
   /\ IsFloor(initial, applied.destination)
   /\ Steps(applied.start, applied.destination) >= 0)
    => /\ applied.path.tag = "Some"
       /\ applied.executed.tag = "Ok"
       /\ applied.executed.st.player = applied.destination
       /\ \A k \in 0..Len(applied.path.moves) :
            WalkedPrefix(k).tag = "Ok" /\ WalkedPrefix(k).st.container = initial.container

\* go_to gave a way around an obstacle: longer than the two squares are apart.
C13_Witness ==
  /\ applied.function = "go_to" /\ applied.path.tag = "Some"
  /\ Len(applied.path.moves)
       > Abs(applied.start[1] - applied.destination[1])
         + Abs(applied.start[2] - applied.destination[2])

\* C14: the moves go_to gives are as many as the least number of steps over Floor
\* squares from start to destination; on the grid of test_go_to_simple, with
\* nothing inside the border, that is the sum of the distances in rows and columns.
C14_GoToShortest ==
  applied.function = "go_to" /\ applied.path.tag = "Some"
    => /\ Len(applied.path.moves) = Steps(applied.start, applied.destination)
       /\ initial = PuzzleGoToSimple
            => Len(applied.path.moves)
                 = Abs(applied.start[1] - applied.destination[1])
                   + Abs(applied.start[2] - applied.destination[2])

\* On the grid of test_go_to_simple go_to gave 23 moves from (3, 14) to (15, 3).
C14_Witness ==
  /\ applied.function = "go_to" /\ initial = PuzzleGoToSimple
  /\ applied.start = <<3, 14>> /\ applied.destination = <<15, 3>>
  /\ applied.path.tag = "Some" /\ Len(applied.path.moves) = 23

\* C15: go_to gives None exactly when start or destination is outside the grid or
\* not Floor or there is no way over Floor squares between them, and the empty
\* sequence when start and destination are the same Floor square.
C15_GoToNone ==
  applied.function = "go_to"
    => /\ applied.path.tag \in {"None", "Some"}
       /\ applied.path.tag = "None"
            <=> \/ ~IsFloor(initial, applied.start)
                \/ ~IsFloor(initial, applied.destination)
                \/ Steps(applied.start, applied.destination) < 0
       /\ IsFloor(initial, applied.start) /\ applied.destination = applied.start
            => applied.path = SomeMoves(<<>>)

\* go_to gave None for two Floor squares of a small grid that obstacles separate.
C15_Witness ==
  /\ applied.function = "go_to" /\ applied.path.tag = "None"
  /\ initial.rows = 5
  /\ IsFloor(initial, applied.start) /\ IsFloor(initial, applied.destination)

\* C16: can_go_to is false exactly when go_to gives None for the same positions
\* and puzzle.
C16_CanGoToAgrees ==
  applied.function = "can_go_to"
    => (applied.reachable
          <=> go_to(applied.start, applied.destination, initial).tag # "None")

\* can_go_to said no for two Floor squares.
C16_Witness ==
  /\ applied.function = "can_go_to" /\ ~applied.reachable
  /\ IsFloor(initial, applied.start) /\ IsFloor(initial, applied.destination)

(***************************************************************************)
(* Pushing one crate: what push_to is measured against.  A position is     *)
(* <<player, crate>>; cleared is the puzzle without the crate, the other   *)
(* crates staying where they are.                                          *)
(***************************************************************************)
\* Where a legal move of the player in direction d leads from position s: a step
\* onto a Floor square or a push of the crate onto one; s itself when d is illegal
\* or would push another crate
Moved(cleared, s, d) ==
  IF go(d, s[1]) = s[2]
  THEN IF IsFloor(cleared, go(d, s[2])) THEN <<s[2], go(d, s[2])>> ELSE s
  ELSE IF IsFloor(cleared, go(d, s[1])) THEN <<go(d, s[1]), s[2]>> ELSE s

\* The positions legal moves lead to from those of frontier; seen holds frontier
RECURSIVE Positioned(_, _, _)
Positioned(cleared, seen, frontier) ==
  IF frontier = {} THEN seen
  ELSE Positioned(cleared,
                  seen \cup {Moved(cleared, s, d) : s \in frontier, d \in Directions},
                  {Moved(cleared, s, d) : s \in frontier, d \in Directions} \ seen)

\* Some legal sequence of moves of the player of puzzle leaves the crate that
\* stands on start on destination, no other crate being pushed
CanBePushed(start, destination, puzzle) ==
  \E s \in Positioned(SetTile(puzzle, start, Floor),
                      {<<puzzle.player, start>>}, {<<puzzle.player, start>>}) :
    s[2] = destination

\* C11 as stated: push_to gives Some whenever some legal sequence of moves leaves
\* the crate on a destination other than the square it stands on.
C11_PushToComplete ==
  (/\ applied.function = "push_to"
   /\ applied.destination # applied.start
   /\ CanBePushed(applied.start, applied.destination, initial))
    => applied.path.tag = "Some"

\* Move k of input is illegal in the state the moves before it lead to
IllegalAt(input, k) ==
  /\ Replay(SubSeq(input, 1, k - 1)).tag = "Ok"
  /\ move_player(Replay(SubSeq(input, 1, k - 1)).st, input[k]).tag = "Err"

C17_Step ==
  iter' = iter + 1 /\ applied'.function = "run_target" =>
    /\ applied'.exit_kind \in {"Ok", "Crash"}
    /\ applied'.exit_kind = "Crash"
         <=> \E k \in 1..Len(applied'.input) : IllegalAt(applied'.input, k)
    /\ applied'.exit_kind = "Crash"
         => /\ last_state' = NoState
            /\ corpus' = corpus /\ progressive_idx' = progressive_idx
            /\ solutions' = solutions
            /\ hash_set' = hash_set
    /\ applied'.exit_kind = "Ok" => last_state' = Replay(applied'.input).st

\* C17: the executor returns Crash exactly when a move of the input is illegal
\* where the moves before it lead; after a Crash last_state is absent and the input
\* enters neither the corpus nor solutions; after Ok last_state is the state the
\* input leads to.
C17_CrashIsIllegalMove == [][C17_Step]_vars

\* An input crashed after an earlier one had been added to the corpus and had left
\* its state in the observer.
C17_Witness ==
  /\ applied.function = "run_target" /\ applied.exit_kind = "Crash"
  /\ applied.input # <<>>
  /\ corpus # <<>>
  /\ last_state = NoState

C18_Step ==
  pc = "next" /\ metadata.total_weight = 0
    => pc' = IF solutions # <<>> THEN "done" ELSE "error"

\* C18 as stated: next, called while total_weight is 0, returns the key-not-found
\* error rather than an id or a panic; the loop ends normally when solutions is not
\* empty and the error is propagated otherwise.
C18_KeyNotFound == [][C18_Step]_vars

\* A crate of state that stands on no target, with a Wall above or below it and a
\* Wall to its left or right
StuckCrate(state, pos) ==
  /\ Tile(state, pos) = Crate
  /\ \A i \in DOMAIN state.targets : state.targets[i] # pos
  /\ Wall \in {Tile(state, <<pos[1] - 1, pos[2]>>), Tile(state, <<pos[1] + 1, pos[2]>>)}
  /\ Wall \in {Tile(state, <<pos[1], pos[2] - 1>>), Tile(state, <<pos[1], pos[2] + 1>>)}

\* The squares inside the border of state
Inner(state) == (1..(state.rows - 2)) \X (1..(state.cols - 2))

HasStuckCrate(state) == \E pos \in Inner(state) : StuckCrate(state, pos)

NoStuckEntry == \A id \in DOMAIN corpus : ~HasStuckCrate(Replay(corpus[id].input).st)

\* C19 as stated: no testcase of the corpus leads to a state with a crate in a
\* corner that is no target, and on an initial puzzle with such a crate the corpus
\* and solutions stay empty.
C19_CorneredRejected ==
  /\ NoStuckEntry
  /\ HasStuckCrate(initial) => corpus = <<>> /\ solutions = <<>>

\* C19: no testcase of the corpus leads to a state with a crate in a corner that
\* is no target; on an initial puzzle with such a crate the corpus stays empty, and
\* solutions holds nothing but the empty input, which it holds exactly when the
\* seed has been executed and every target of the initial puzzle holds a crate.
C19_CorneredNotAdded ==
  /\ NoStuckEntry
  /\ HasStuckCrate(initial) =>
       /\ corpus = <<>>
       /\ solutions = IF pc # "seed" /\ in_solution_state(initial) THEN <<<<>>>> ELSE <<>>

\* A stage executed an input that pushes a crate into a corner that is no target,
\* and the input is not in the corpus.
C19_Witness ==
  /\ pc \in Stages
  /\ last_call.result = "Mutated"
  /\ ~HasStuckCrate(initial)
  /\ HasStuckCrate(Replay(last_call.moves_after).st)
  /\ \A id \in DOMAIN corpus : corpus[id].input # last_call.moves_after

\* What the novelty feedback tells states apart by: where the crates are and where
\* the player is
CratesAndPlayer(input) ==
  <<{pos \in Inner(initial) : Tile(Replay(input).st, pos) = Crate}, Replay(input).st.player>>

\* The ids of the testcases added to the corpus so far, pruned or not
Added == 0..(progressive_idx - 1)

C20_Step ==
  /\ hash_set \subseteq hash_set'
  /\ \A id \in DOMAIN corpus' :
       id \notin DOMAIN corpus =>
         /\ id \notin Added
         /\ hash(Replay(corpus'[id].input).st) \notin hash_set
         /\ hash(Replay(corpus'[id].input).st) \in hash_set'
         /\ \A other \in DOMAIN corpus :
              CratesAndPlayer(corpus[other].input) # CratesAndPlayer(corpus'[id].input)

C20_State ==
  \A id, other \in DOMAIN corpus :
    id # other => CratesAndPlayer(corpus[id].input) # CratesAndPlayer(corpus[other].input)

\* C20: an input is added to the corpus only if the hash of the state it leads to
\* was in no earlier execution's record, which never loses a hash; so no two
\* testcases ever added, pruned ones included, lead to states with the same crates
\* and the same player square.
C20_NovelStates == [][C20_Step]_vars /\ []C20_State

\* A testcase has been pruned and the corpus holds two or more others.
C20_Witness ==
  /\ \E id \in Added : id \notin DOMAIN corpus
  /\ Cardinality(DOMAIN corpus) >= 2

\* The budget on_add attaches to a testcase with this input
FreshBudget(input) ==
  SokobanRemainingMutationsMetadata_new(find_crates(Replay(input).st), initial.targets)

C21_Step ==
  /\ \A id \in DOMAIN corpus' :
       id \notin DOMAIN corpus =>
         /\ id \notin DOMAIN metadata.weight
         /\ id \in DOMAIN metadata'.weight
         /\ corpus'[id].remaining_mutations = FreshBudget(corpus'[id].input)
         /\ metadata'.weight[id] = remaining(FreshBudget(corpus'[id].input))
  /\ \A id \in DOMAIN metadata'.weight :
       id \notin DOMAIN metadata.weight => id \notin DOMAIN corpus
  /\ pc = "next" /\ pc' = "oneshot" =>
       /\ current' \in DOMAIN metadata'.weight
       /\ current' \in DOMAIN corpus'
       /\ corpus'[current'].remaining_mutations # NoMeta

C21_State ==
  /\ DOMAIN metadata.weight \subseteq DOMAIN corpus
  /\ \A id \in DOMAIN corpus : corpus[id].remaining_mutations # NoMeta

\* C21: a testcase enters the corpus with the budget and the weight on_add gives
\* it, and no weight is entered at any other time; every id next selects is in the
\* weight map and in the corpus and has its budget attached.
C21_OnAddBeforeNext == [][C21_Step]_vars /\ []C21_State

\* next has selected a testcase that a stage had added.
C21_Witness == pc = "oneshot" /\ iter = 0 /\ current > 0

\* C22 as stated: when next draws, of two testcases of the weight map the one with
\* less budget left has the greater weight.
C22_LessBudgetPreferred ==
  pc = "next" =>
    \A a, b \in DOMAIN metadata.weight :
      remaining(Budget(corpus[a])) < remaining(Budget(corpus[b]))
        => metadata.weight[a] > metadata.weight[b]

C23_Step ==
  IsExecution /\ Returned =>
    /\ hallucination # NoState => hallucination = Replay(Executed).st
    /\ Replay(Executed).tag = "Ok"
    /\ last_state' = Replay(Executed).st
    /\ pc \in Stages => last_state' = last_call'.hallucinated_after

\* C23: the state the executor hands the observer is the replay of the executed
\* input's moves on the initial puzzle, and in a stage it is the state the mutator
\* hallucinated; a state in the LastHallucination slot at the start of run_target
\* is that replay too.
C23_PublishedIsReplay == [][C23_Step]_vars

\* MoveCrateToTarget has extended an input that was not empty, and the executor
\* has published the state of the longer input.
C23_Witness ==
  /\ last_call.mutator = "MoveCrateToTarget" /\ last_call.result = "Mutated"
  /\ last_call.moves_before # <<>>
  /\ last_state = last_call.hallucinated_after
  /\ last_state # Replay(last_call.moves_before).st

\* C24: the LastHallucination slot is empty after every executor run and at every
\* boundary between stages.
C24_SlotEmpty == hallucination = NoState

\* The first stage has ended after an execution of a mutated input.
C24_Witness ==
  /\ pc = "move_crate" /\ iter = 0
  /\ last_call.mutator = "OneShot" /\ last_call.result = "Mutated"
  /\ last_state = last_call.hallucinated_after
  /\ hallucination = NoState

\* The letter of a move in a name
Letter(move) ==
  IF move = Up THEN "U" ELSE IF move = Down THEN "D"
  ELSE IF move = Left THEN "L" ELSE "R"

\* C25: the name of an input has one character per move, in order, U for Up, D for
\* Down, L for Left and R for Right, so as many characters as the input has moves;
\* another input has the same name exactly when it has the same moves.
C25_NameIsMoves ==
  applied.function = "generate_name" =>
    /\ Len(applied.name) = Len(applied.input)
    /\ \A i \in 1..Len(applied.input) : applied.name[i] = Letter(applied.input[i])
    /\ \A other \in Nameable : \A idx \in Ids :
         generate_name(other, idx) = applied.name <=> other = applied.input

\* An input of three moves, two of them sideways, has been named.
C25_Witness ==
  /\ applied.function = "generate_name"
  /\ applied.input = <<Left, Right, Up>>
  /\ applied.name = <<"L", "R", "U">>

\* The pair a Mutated call of MoveCrate popped last
PoppedPair == last_call.moves_remaining_before[Len(last_call.moves_remaining_after) + 1]

\* before with the crate at c pushed one square in direction d by the player
PushedOnce(before, c, d) ==
  [SetTile(SetTile(before, c, Floor), go(d, c), Crate) EXCEPT !.player = c]

\* C26: when MoveCrate returns Mutated after popping (c, d), c held a crate, and
\* the new hallucinated state is the previous one with that crate one square
\* further in direction d, c Floor and the player at c; every other square, so
\* every other crate, is as before.
C26_OnePush ==
  last_call.mutator = "MoveCrate" /\ last_call.result = "Mutated" =>
    /\ Len(last_call.moves_remaining_after) < Len(last_call.moves_remaining_before)
    /\ Tile(last_call.hallucinated_before, PoppedPair[1]) = Crate
    /\ last_call.hallucinated_after =
         PushedOnce(last_call.hallucinated_before, PoppedPair[1], PoppedPair[2])

\* MoveCrate has pushed one of two crates after a walk.
C26_Witness ==
  /\ last_call.mutator = "MoveCrate" /\ last_call.result = "Mutated"
  /\ Len(find_crates(last_call.hallucinated_before)) = 2
  /\ Len(last_call.moves_after) > Len(last_call.moves_before) + 1

Prefix(before, after) ==
  Len(before) <= Len(after) /\ before = SubSeq(after, 1, Len(before))

\* C27: whatever a mutate call of MoveCrate, MoveCrateToTarget or OneShot returns,
\* the move list before the call is a prefix of the move list after it.
C27_OnlyAppends ==
  last_call.mutator # "none" => Prefix(last_call.moves_before, last_call.moves_after)

\* OneShot has extended an input that was not empty.
C27_Witness ==
  /\ last_call.mutator = "OneShot" /\ last_call.result = "Mutated"
  /\ last_call.moves_before # <<>>
  /\ Len(last_call.moves_after) > Len(last_call.moves_before)

\* C28: a mutate call that returns Skipped leaves the move list as it was and the
\* hallucinated state present and as it was.
C28_SkippedChangesNothing ==
  last_call.result = "Skipped" =>
    /\ last_call.moves_after = last_call.moves_before
    /\ last_call.hallucinated_after # NoState
    /\ last_call.hallucinated_after = last_call.hallucinated_before

\* The pair a call of MoveCrateToTarget popped last
PoppedTarget ==
  last_call.targets_remaining_before[Len(last_call.targets_remaining_after) + 1]

\* MoveCrateToTarget was skipped on an input shorter than max_size: push_to found
\* moves for the pair popped last, and they were too many.
C28_Witness ==
  /\ last_call.mutator = "MoveCrateToTarget" /\ last_call.result = "Skipped"
  /\ Len(last_call.moves_before) < max_size
  /\ Len(last_call.targets_remaining_after) < Len(last_call.targets_remaining_before)
  /\ push_to(PoppedTarget[1], PoppedTarget[2], last_call.hallucinated_before).tag = "Some"

C29_Step ==
  pc = "oneshot" /\ iter' = iter + 1 =>
    /\ last_call'.mutator = "OneShot"
    /\ last_call'.moves_remaining_after = last_call'.moves_remaining_before
    /\ last_call'.targets_remaining_after = last_call'.targets_remaining_before
    /\ corpus'[current].remaining_mutations = corpus[current].remaining_mutations
    /\ last_call'.result # "Mutated" => metadata' = metadata
    /\ last_call'.result = "Mutated" =>
         metadata' = evaluate_input(last_call'.moves_after, corpus).metadata

\* C29: a OneShot call leaves the selected testcase's moves_remaining and
\* move_to_targets_remaining as they were, whatever it returns, and the weight map
\* too: after Skipped it is the one before the call, after Mutated the one the
\* evaluation of the new input makes of the one before the call.
C29_OneShotKeepsBudget == [][C29_Step]_vars

\* OneShot has extended the input of a testcase part of whose budget was used up.
C29_Witness ==
  /\ pc = "oneshot"
  /\ last_call.mutator = "OneShot" /\ last_call.result = "Mutated"
  /\ Len(last_call.moves_remaining_after) \in 1..3
  /\ Budget(corpus[current]).moves_remaining = last_call.moves_remaining_after

\* The pair (crates[i], targets[i]) can be processed on state after moves: push_to
\* finds moves for it and they fit under max_size
Fits(i, targets, crates, state, moves) ==
  /\ push_to(crates[i], targets[i], state).tag = "Some"
  /\ Len(moves) + Len(push_to(crates[i], targets[i], state).moves) <= max_size

\* The state after the pair (crates[i], targets[i]) was processed on state
After(i, targets, crates, state) ==
  try_fold(state, push_to(crates[i], targets[i], state).moves).st

RECURSIVE Paired(_, _, _, _, _)
\* The move list after the pairs from i on were processed in order on state,
\* reached by moves, up to the first pair that does not fit or solves the puzzle
Paired(i, targets, crates, state, moves) ==
  IF i > Len(targets) \/ i > Len(crates) THEN moves
  ELSE IF ~Fits(i, targets, crates, state, moves) THEN moves
  ELSE IF in_solution_state(After(i, targets, crates, state))
  THEN moves \o push_to(crates[i], targets[i], state).moves
  ELSE Paired(i + 1, targets, crates, After(i, targets, crates, state),
              moves \o push_to(crates[i], targets[i], state).moves)

\* C30: a OneShot call on an unsolved input shorter than max_size leaves the move
\* list that processing the pairs of some order of the targets and some order of
\* the crates gives, one pair after the other on the current state, up to the
\* first pair whose push_to fails or whose moves would exceed max_size, or until
\* the state is solved, and the state these moves lead to; it returns Mutated
\* exactly when the move list grew.
C30_OneShotPairs ==
  last_call.mutator = "OneShot" /\ last_call.result \in {"Mutated", "Skipped"} =>
    /\ last_call.result = "Mutated"
         <=> Len(last_call.moves_after) > Len(last_call.moves_before)
    /\ Len(last_call.moves_before) < max_size
       /\ ~in_solution_state(last_call.hallucinated_before) =>
         /\ \E targets \in Shuffles(last_call.hallucinated_before.targets) :
            \E crates \in Shuffles(find_crates(last_call.hallucinated_before)) :
              last_call.moves_after =
                Paired(1, targets, crates, last_call.hallucinated_before,
                       last_call.moves_before)
         /\ last_call.hallucinated_after = Replay(last_call.moves_after).st

\* OneShot has processed two pairs: both crates were pushed and the puzzle is solved.
C30_Witness ==
  /\ last_call.mutator = "OneShot" /\ last_call.result = "Mutated"
  /\ Len(find_crates(last_call.hallucinated_before)) = 2
  /\ \A i \in 1..2 : find_crates(last_call.hallucinated_before)[i]
                       # find_crates(last_call.hallucinated_after)[i]
  /\ in_solution_state(last_call.hallucinated_after)

\* The weight of id in a weight map, 0 when it has none
WeightIn(weight, id) == IF id \in DOMAIN weight THEN weight[id] ELSE 0

\* What on_evaluation did to the weight of the current testcase in the step
CurrentReweighed == WeightIn(metadata'.weight, current) - WeightIn(metadata.weight, current)

C31_Step ==
  /\ \A id \in DOMAIN corpus' :
       id \notin DOMAIN corpus =>
         /\ id \in DOMAIN metadata'.weight
         /\ metadata'.weight[id] =
              Len(Budget(corpus'[id]).moves_remaining)
              + Len(Budget(corpus'[id]).move_to_targets_remaining)
         /\ metadata'.total_weight =
              (metadata.total_weight + metadata'.weight[id]) + CurrentReweighed
         /\ \A other \in DOMAIN metadata.weight :
              other # current =>
                /\ other \in DOMAIN metadata'.weight
                /\ metadata'.weight[other] = metadata.weight[other]
         /\ DOMAIN metadata'.weight \subseteq (DOMAIN metadata.weight) \cup {id}
         /\ metadata'.max_weight =
              IF progressive_idx = 0 THEN metadata'.weight[id] ELSE metadata.max_weight
  /\ metadata'.max_weight # metadata.max_weight =>
       progressive_idx = 0 /\ DOMAIN corpus' # {}

\* C31: on_add gives the new id the weight |moves_remaining| + |targets_remaining|
\* of its testcase and adds it to total_weight (in the same step on_evaluation may
\* have reweighed the current testcase), no other weight changes, and max_weight
\* is set when the first testcase is added and never changes afterwards.
C31_OnAddWeight == [][C31_Step]_vars

\* A third testcase was added while another than the current one had a weight.
C31_Witness ==
  /\ progressive_idx >= 3
  /\ progressive_idx - 1 \in DOMAIN metadata.weight
  /\ Cardinality(DOMAIN metadata.weight) >= 3
  /\ metadata.weight[progressive_idx - 1] = metadata.max_weight

C33_Step ==
  pc \in Stages /\ iter' = iter + 1 /\ last_call'.result = "Mutated" =>
    /\ current \in DOMAIN metadata.weight
    /\ pc' # "panic_on_evaluation"

\* C33 as stated: whenever an input is evaluated while a testcase is selected, the
\* selected testcase has a weight, so on_evaluation finds its key and does not panic.
C33_CurrentHasWeight == [][C33_Step]_vars

\* The ids of a sequence of ids
Listed(ids) == {ids[i] : i \in 1..Len(ids)}

\* The draws below total for which the scan of weight in order returns id
DrawsFor(id, order, weight, total) ==
  {r \in 0..(total - 1) : scan_weights(1, order, weight, r) = id}

\* Whatever the order of the map, every id is returned for as many draws as its weight
Proportional(weight) ==
  \A order \in SeqPerms(DOMAIN weight) : \A id \in DOMAIN weight :
    Cardinality(DrawsFor(id, order, weight, SumWeights(weight))) = weight[id]

C32_Step ==
  pc = "next" =>
    /\ metadata'.pruneable = <<>>
    /\ DOMAIN corpus' = (DOMAIN corpus) \ Listed(metadata.pruneable)
    /\ \A id \in DOMAIN corpus' : corpus'[id] = corpus[id]
    /\ metadata'.weight = metadata.weight
    /\ metadata'.total_weight = metadata.total_weight
    /\ metadata.total_weight > 0 =>
         /\ pc' = "oneshot"
         /\ current' \in DOMAIN metadata.weight
         /\ metadata.weight[current'] > 0
         /\ \E order \in SeqPerms(DOMAIN metadata.weight) :
              DrawsFor(current', order, metadata.weight, metadata.total_weight) # {}

C32_State ==
  pc = "next" =>
    /\ metadata.total_weight > 0 =>
         /\ metadata.total_weight = SumWeights(metadata.weight)
         /\ Proportional(metadata.weight)
    /\ \A weight \in [0..2 -> 0..2] : Proportional(weight)

\* C32: next removes the pruneable ids from the corpus, and only them, and empties
\* pruneable; when total_weight is positive it returns an id of the weight map
\* with a positive weight, which becomes the current id, and whatever the order of
\* the map every id is returned for exactly weight[id] of the total_weight draws
\* (an id of weight 0 for none).
C32_WeightedSelection == [][C32_Step]_vars /\ []C32_State

\* next has removed a pruned testcase and selected one of two or more.
C32_Witness ==
  /\ pc = "oneshot" /\ iter = 0
  /\ metadata.pruneable = <<>>
  /\ \E id \in Added : id \notin DOMAIN corpus
  /\ Cardinality(DOMAIN metadata.weight) >= 2
  /\ \E id \in DOMAIN metadata.weight : metadata.weight[id] # metadata.weight[current]

C34_Step ==
  pc \in Stages /\ iter' = iter + 1 /\ last_call'.result = "Mutated"
  /\ current \in DOMAIN metadata.weight /\ remaining(Budget(corpus'[current])) > 0 =>
    /\ pc' # "panic_on_evaluation"
    /\ metadata'.weight[current]
         = (1 + metadata.max_weight) - remaining(Budget(corpus'[current]))
    /\ metadata'.weight[current] >= 1

C34_State ==
  /\ \A id \in DOMAIN corpus :
       /\ remaining(Budget(corpus[id])) <= metadata.max_weight
       /\ 4 * Crates(corpus[id]) + Crates(corpus[id]) * Len(initial.targets)
            = metadata.max_weight
  /\ \A id \in DOMAIN metadata.weight : metadata.weight[id] \in 1..metadata.max_weight

\* C34: every testcase of the corpus has as many crates as the first one, so a
\* budget of at most max_weight; when on_evaluation reweighs a testcase that has
\* budget left, 1 + max_weight - remaining does not underflow and is at least 1.
C34_NoUnderflow == [][C34_Step]_vars /\ []C34_State

\* on_evaluation has reweighed a testcase with its whole budget left: weight 1.
C34_Witness ==
  /\ current \in DOMAIN metadata.weight
  /\ remaining(Budget(corpus[current])) = metadata.max_weight
  /\ metadata.weight[current] = 1
  /\ last_call.mutator = "OneShot" /\ last_call.result = "Mutated"

\* C35: push_to never panics, whatever the puzzle, the crate and the destination:
\* when its search reaches the destination, every walk to the next push point is
\* found and every move it replays is legal, and the moves it returns execute on
\* the puzzle.
C35_PushToNeverPanics ==
  applied.function = "push_to" =>
    /\ applied.path.tag \in {"Some", "None"}
    /\ applied.path.tag = "Some" => applied.executed.tag = "Ok"

\* push_to has reassembled the moves for a crate pushed along both axes past
\* another crate, with walks of the player between the pushes.
C35_Witness ==
  /\ applied.function = "push_to" /\ applied.path.tag = "Some"
  /\ Len(find_crates(initial)) = 2
  /\ Len(applied.path.moves) >= 6
  /\ Abs(applied.destination[1] - applied.start[1])
       + Abs(applied.destination[2] - applied.start[2]) <= 3

\* Every pair of pairs starts at a square that holds a crate in state
OnCrates(pairs, state) ==
  \A i \in 1..Len(pairs) : Tile(state, pairs[i][1]) = Crate

C36_Step ==
  \A id \in DOMAIN corpus' : id \in DOMAIN corpus => corpus'[id].input = corpus[id].input

C36_State ==
  /\ \A id \in DOMAIN corpus :
       /\ Replay(corpus[id].input).tag = "Ok"
       /\ OnCrates(Budget(corpus[id]).moves_remaining, Replay(corpus[id].input).st)
       /\ OnCrates(Budget(corpus[id]).move_to_targets_remaining,
                   Replay(corpus[id].input).st)
  /\ last_call.mutator \in {"MoveCrate", "MoveCrateToTarget"} =>
       /\ OnCrates(last_call.moves_remaining_before, last_call.hallucinated_before)
       /\ OnCrates(last_call.targets_remaining_before, last_call.hallucinated_before)

\* C36: the moves of a testcase of the corpus never change, and every pair of its
\* moves_remaining and of its move_to_targets_remaining starts at a square that
\* holds a crate in the replay of its moves, so every pair MoveCrate or
\* MoveCrateToTarget pops names a crate of the state it was handed.
C36_BudgetOnCrates == [][C36_Step]_vars /\ []C36_State

\* MoveCrate has extended the moves of a testcase that was added with moves of its
\* own, and the testcase keeps its moves and what is left of its budget.
C36_Witness ==
  /\ pc = "move_crate"
  /\ last_call.mutator = "MoveCrate" /\ last_call.result = "Mutated"
  /\ corpus[current].input = last_call.moves_before
  /\ corpus[current].input # <<>>
  /\ Budget(corpus[current]).moves_remaining # <<>>

\* The puzzle has fewer crates than targets: moves neither add nor remove a crate,
\* so no state reachable from it has a crate on every target
Unsolvable == Len(find_crates(initial)) < Len(initial.targets)

\* C37 as stated: on a puzzle from which no solved state can be reached, a search
\* that keeps running reaches, after finitely many iterations of the loop, a next
\* with no weight left (total_weight = 0).
C37_SearchEnds ==
  (Unsolvable /\ []<>(pc = "next")) => <>(pc = "next" /\ metadata.total_weight = 0)

\* How many entries of the table name the child id
Entries(self, id) == Cardinality({k \in DOMAIN self.weights : self.weights[k] = id})

C38_Table ==
  applied.function = "RandomPreferenceMutator" /\ iter >= 1 =>
    /\ \A id \in 0..(applied.len - 1) : Entries(applied, id) \in 1..WEIGHT_PRECISION
    /\ applied.total_weight = Len(applied.weights)
    /\ \A k \in DOMAIN applied.weights : applied.weights[k] \in 0..(applied.len - 1)
    /\ applied.idx \in 0..(applied.len - 1)
    /\ pc = "pref"

C38_Step ==
  applied'.function = "RandomPreferenceMutator" /\ iter' = iter + 1 =>
    /\ iter = 0 => applied'.redrawn
    /\ iter >= 1 =>
         (applied'.redrawn <=> iter' - applied.last_redraw = REWEIGHT_FREQUENCY)

\* C38 as stated: RandomPreference redraws its weights on its first call and then
\* on every REWEIGHT_FREQUENCY-th call, counted from the last redraw; after a
\* redraw every child has between 1 and WEIGHT_PRECISION entries in the table,
\* total_weight is the length of the table, and every draw selects a child.
C38_Reweights == [][C38_Step]_vars /\ []C38_Table
=============================================================================
